---- MODULE Spec2Model ----
(***************************************************************************)
(* Model of the auto_news pipeline of GlobalDigitalTimes:                  *)
(*   - the publisher and its ledger (auto_news/publisher.py),              *)
(*   - the priority queues (auto_news/event_classifier.py),                *)
(*   - the selection, generation and publishing loop of run_pipeline       *)
(*     (auto_news/orchestrator.py).                                        *)
(*   - the event classifier (auto_news/event_classifier.py) and the        *)
(*     trending matcher (auto_news/fast_sources.py),                       *)
(*   - the feed fetcher (auto_news/rss_fetcher.py), the wait for the       *)
(*     featured image (auto_news/image_generator.py) and main with the     *)
(*     results of run_pipeline (auto_news/orchestrator.py).                *)
(* The specifications share the variables:                                 *)
(*   Spec        calls of publish_article / publish_articles, one at a     *)
(*               time;                                                     *)
(*   SpecQ       the queue building of run_pipeline on a classified list;  *)
(*   SpecOneRun  one pipeline run from the classified candidates on;       *)
(*   SpecRun     whole pipeline runs, one after the other;                 *)
(*   SpecLaterRun  a run, up to the end of the generation loop, on a site  *)
(*               whose ledger holds earlier publications;                  *)
(*   SpecClassify  calls of the event classifier, then of the booster;     *)
(*   SpecTrending  calls of the trending matcher and of the booster;       *)
(*   SpecLedger  calls of save_article_to_db, one after the other;         *)
(*   SpecTwoRuns  two runs taking the steps of publish_article side by     *)
(*               side;                                                     *)
(*   SpecWait    generate_featured_image waiting for its image, with the   *)
(*               thread kept running;                                      *)
(*   SpecFeeds   one call of fetch_all_feeds and its worker threads;       *)
(*   SpecMain    one invocation of main, every step of run_pipeline free   *)
(*               to raise.                                                 *)
(***************************************************************************)
EXTENDS Integers, Sequences, FiniteSets, TLC

VARIABLES
    ledger,         \* articles.json: db['articles'], newest first
    files,          \* ARTICLES_DIR: slug -> id of the article whose HTML the file holds (0: no file)
    call,           \* the publisher call made last: [op, id] (op "none" before any call)
    ret,            \* what that call returned (publish_article: BOOLEAN, publish_articles: count)
    batch,          \* publish_articles in progress: [active, done, published_count]
    relevant,       \* run_pipeline: the ids of the relevant candidates of this run, in fetch order
    new_articles,   \* run_pipeline: the classified candidates handed to get_publishing_queues
    limit,          \* run_pipeline: the limit argument (NoLimit: None)
    test_mode,      \* run_pipeline: the test_mode argument (dry run)
    queues,         \* run_pipeline: what get_publishing_queues returned
    to_process,     \* run_pipeline: the list sent to content generation
    pc,             \* run_pipeline: position ("idle", "classified", "selected", "generate", "publish";
                    \* in main: "step1" .. "step7", "returned", "exited")
    generated_articles, \* run_pipeline: the articles generated so far in this run
    genLog,         \* ids handed to generate_full_article in this run, in call order
    pubLog,         \* ids handed to publish_article in this run, in call order
    dbInserts,      \* per id: number of ledger insertions made for it, over all runs
    article_list,   \* the article dicts handed to classify_article and boost_viral_articles
    trending,       \* the trending signals: [reddit, hackernews, github], each a list
    cpc,            \* where the classification of articles stands ("none": not in use)
    last_call,      \* the classifier or matcher call made last: [op, external, arg, raised, value]
    saved,          \* the entries written to the ledger file by the calls followed one by one, newest first
    workers,        \* two runs publishing side by side: [proc: per run [pc, article, db, calls], overlapped]
    wait,           \* generate_featured_image waiting for the image: [pc, max_wait, elapsed, polls, status, image_url, featured_image]
    pool,           \* fetch_all_feeds: [pc, future: per feed [state, entry, articles, raised], all_articles]
    fetched_articles, \* main: the articles fetch_and_process_feeds returned: [id, missing, relevant]
    results,        \* main: the results dict of run_pipeline (counters, errors, published_articles)
    happened,       \* main: what went wrong and what publish_article published in this invocation
    exit_code       \* main: the exit status of the process (-1 while it runs)

vars == <<ledger, files, call, ret, batch, relevant, new_articles, limit, test_mode, queues, to_process, pc,
          generated_articles, genLog, pubLog, dbInserts, article_list, trending, cpc, last_call,
          saved, workers, wait, pool, fetched_articles, results, happened, exit_code>>

pubVars == <<ledger, files, call, ret, batch>>
runVars == <<relevant, new_articles, limit, test_mode, queues, to_process, pc, generated_articles, genLog, pubLog>>
histVars == <<dbInserts>>
clsVars == <<article_list, trending, cpc, last_call>>
mainVars == <<fetched_articles, results, happened, exit_code>>
svcVars == <<saved, workers, wait, pool, mainVars>>

----------------------------------------------------------------------------
(* Bounds of the model *)

\* The ledger keeps this many entries; publisher.py:348 keeps 500, scaled down here
\* so that eviction is reachable.
MAX_LEDGER == 2

\* Longest list handed to one publish_articles call.
MaxBatch == 2

\* Enough identifiers to fill the ledger and push an entry out of it.
NumIds == MAX_LEDGER + 1

Ids == 1..NumIds
\* The slugs an article's metadata can carry.
Slugs == {"slug-a", "slug-b"}

Min(a, b) == IF a <= b THEN a ELSE b
Max(a, b) == IF a >= b THEN a ELSE b

\* Python's s[:n] for n >= 0.
Take(s, n) == SubSeq(s, 1, Min(n, Len(s)))

\* Python's s[:n] for any integer n (a negative n counts from the end).
Slice(s, n) == IF n >= 0 THEN Take(s, n) ELSE SubSeq(s, 1, Max(Len(s) + n, 0))

SeqsUpTo(S, n) == UNION {[1..k -> S] : k \in 0..n}

----------------------------------------------------------------------------
(* auto_news/publisher.py *)

\* A generated article as the publisher reads it: its id and metadata.slug.
GeneratedArticles == [id : Ids, slug : Slugs]

\* What the two writes of one publish_article call can do.
IoOutcomes == {[html |-> TRUE, db |-> TRUE], [html |-> TRUE, db |-> FALSE],
               [html |-> FALSE, db |-> TRUE]}

\* article_exists comparing a key the entries do not carry: it never matches.
article_exists_wrong_key(article_id, db) == FALSE

article_exists(article_id, db) == \E k \in 1..Len(db) : db[k].id = article_id

\* The entry save_article_to_db builds (the fields the model follows).
LedgerEntry(article) == [id |-> article.id, slug |-> article.slug]

\* The entry appended at the end of the list before the cut.
save_article_to_db_appends(article, db, dbOk) ==
    IF dbOk THEN Take(db \o <<[id |-> article.id, slug |-> article.slug]>>, MAX_LEDGER) ELSE db

\* insert(0, entry), keep the first MAX_LEDGER, save_articles_db; dbOk = FALSE:
\* the write raised and the file keeps its content.
save_article_to_db(article, db, dbOk) ==
    IF dbOk THEN Take(<<LedgerEntry(article)>> \o db, MAX_LEDGER) ELSE db

\* write_text of <slug>.html; htmlOk = FALSE: rendering or writing raised.
save_article_html(article, fs, htmlOk) ==
    IF htmlOk THEN [fs EXCEPT ![article.slug] = article.id] ELSE fs

\* publish_article writing the article file before it looks into the ledger.
publish_article_html_first(article, db, fs, io) ==
    IF ~io.html
    THEN [ret |-> FALSE, db |-> db, files |-> fs, wrote |-> FALSE, inserted |-> FALSE]
    ELSE IF \E k \in 1..Len(db) : db[k].id = article.id
    THEN [ret |-> FALSE, db |-> db,
          files |-> [fs EXCEPT ![article.slug] = article.id],
          wrote |-> TRUE, inserted |-> FALSE]
    ELSE [ret |-> TRUE,
          db |-> IF io.db THEN Take(<<[id |-> article.id, slug |-> article.slug]>> \o db, MAX_LEDGER)
                 ELSE db,
          files |-> [fs EXCEPT ![article.slug] = article.id],
          wrote |-> TRUE, inserted |-> io.db]

\* publish_article as a function of the ledger and the files:
\* [ret, db, files, wrote (an article file was written), inserted (a ledger write was made)].
publish_article(article, db, fs, io) ==
    IF article_exists(article.id, db)
    THEN [ret |-> FALSE, db |-> db, files |-> fs, wrote |-> FALSE, inserted |-> FALSE]
    ELSE IF ~io.html
    THEN [ret |-> FALSE, db |-> db, files |-> fs, wrote |-> FALSE, inserted |-> FALSE]
    ELSE [ret |-> TRUE,
          db |-> save_article_to_db(article, db, io.db),
          files |-> save_article_html(article, fs, TRUE),
          wrote |-> TRUE, inserted |-> io.db]

\* One call of publish_article, made directly by a caller.
PublishArticle ==
    /\ ~batch.active
    /\ \E article \in GeneratedArticles, io \in IoOutcomes :
        LET r == publish_article(article, ledger, files, io)
        IN /\ ledger' = r.db
           /\ files' = r.files
           /\ ret' = r.ret
           /\ call' = [op |-> "publish_article", id |-> article.id]
    /\ UNCHANGED <<batch, runVars, histVars, clsVars, svcVars>>

\* publish_articles(articles) is entered: published_count = 0.
PublishArticlesBegin ==
    /\ ~batch.active
    /\ batch' = [active |-> TRUE, done |-> 0, published_count |-> 0]
    /\ call' = [op |-> "publish_articles", id |-> 0]
    /\ UNCHANGED <<ledger, files, ret, runVars, histVars, clsVars, svcVars>>

\* One iteration of the loop of publish_articles: the next article of the
\* caller's list goes through publish_article.
PublishArticlesStep ==
    /\ batch.active
    /\ batch.done < MaxBatch
    /\ \E article \in GeneratedArticles, io \in IoOutcomes :
        LET r == publish_article(article, ledger, files, io)
        IN /\ ledger' = r.db
           /\ files' = r.files
           /\ ret' = r.ret
           /\ call' = [op |-> "publish_article", id |-> article.id]
           /\ batch' = [batch EXCEPT !.done = @ + 1,
                           !.published_count = IF r.ret THEN @ + 1 ELSE @]
    /\ UNCHANGED <<runVars, histVars, clsVars, svcVars>>

\* The list is exhausted: index and sitemap are refreshed (neither touches the
\* ledger or the article files) and published_count is returned.
PublishArticlesReturn ==
    /\ batch.active
    /\ batch' = [active |-> FALSE, done |-> 0, published_count |-> 0]
    /\ ret' = batch.published_count
    /\ call' = [op |-> "publish_articles_return", id |-> 0]
    /\ UNCHANGED <<ledger, files, runVars, histVars, clsVars, svcVars>>

----------------------------------------------------------------------------
(* auto_news/event_classifier.py: the priority queues *)

\* EVENT_PRIORITY's tiers: the values event_classification.priority takes.
Priorities == {1, 2, 3}

\* A candidate after classify_article, as the queues read it: its id and the
\* priority and high_profile of its event_classification.
ClassKinds == [priority : Priorities, high_profile : BOOLEAN]

\* sort_key of sort_by_priority, doubled to stay in the integers:
\* priority + (0 if high_profile else 0.5).
sort_key(article) == 2 * article.priority + (IF article.high_profile THEN 0 ELSE 1)

\* An insertion that puts x in front of the elements of equal key: the sort is
\* no longer stable.
RECURSIVE InsertBeforeTies(_, _)
InsertBeforeTies(sorted, x) ==
    IF sorted = <<>> THEN <<x>>
    ELSE IF 2 * x.priority + (IF x.high_profile THEN 0 ELSE 1)
              <= 2 * sorted[Len(sorted)].priority
                    + (IF sorted[Len(sorted)].high_profile THEN 0 ELSE 1)
         THEN Append(InsertBeforeTies(SubSeq(sorted, 1, Len(sorted) - 1), x),
                     sorted[Len(sorted)])
         ELSE Append(sorted, x)

\* Insertion of x into a list sorted by key, behind every element whose key is
\* not larger: what a stable sort does with x when x came after them.
RECURSIVE InsertStable(_, _)
InsertStable(sorted, x) ==
    IF sorted = <<>> THEN <<x>>
    ELSE IF sort_key(x) < sort_key(sorted[Len(sorted)])
         THEN Append(InsertStable(SubSeq(sorted, 1, Len(sorted) - 1), x), sorted[Len(sorted)])
         ELSE Append(sorted, x)

\* sorted(articles, key=sort_key): Python's sort is stable.
RECURSIVE sort_by_priority(_)
sort_by_priority(articles) ==
    IF articles = <<>> THEN <<>>
    ELSE InsertStable(sort_by_priority(SubSeq(articles, 1, Len(articles) - 1)),
                      articles[Len(articles)])

IsBreaking(a) == a.priority = 1
\* The test of the high queue written as "priority >= 2".
IsHighOrLower(a) == a.priority >= 2

IsHigh(a) == a.priority = 2
IsRoutine(a) == a.priority # 1 /\ a.priority # 2

get_publishing_queues(articles) ==
    [breaking |-> sort_by_priority(SelectSeq(articles, IsBreaking)),
     high     |-> sort_by_priority(SelectSeq(articles, IsHigh)),
     routine  |-> sort_by_priority(SelectSeq(articles, IsRoutine))]

----------------------------------------------------------------------------
(* Text: Python strings as TLA+ strings *)

UpperLetters == "ABCDEFGHIJKLMNOPQRSTUVWXYZ"
LowerLetters == "abcdefghijklmnopqrstuvwxyz"
DigitsAndUnderscore == "0123456789_"

CharAt(s, i) == SubSeq(s, i, i)
IndexIn(alphabet, c) == CHOOSE i \in 1..Len(alphabet) : CharAt(alphabet, i) = c
IsIn(alphabet, c) == \E i \in 1..Len(alphabet) : CharAt(alphabet, i) = c

\* str.lower() and str.upper() on the ASCII letters.
RECURSIVE lower(_)
lower(s) ==
    IF s = "" THEN ""
    ELSE (IF IsIn(UpperLetters, CharAt(s, 1))
          THEN CharAt(LowerLetters, IndexIn(UpperLetters, CharAt(s, 1)))
          ELSE CharAt(s, 1)) \o lower(SubSeq(s, 2, Len(s)))

RECURSIVE upper(_)
upper(s) ==
    IF s = "" THEN ""
    ELSE (IF IsIn(LowerLetters, CharAt(s, 1))
          THEN CharAt(UpperLetters, IndexIn(LowerLetters, CharAt(s, 1)))
          ELSE CharAt(s, 1)) \o upper(SubSeq(s, 2, Len(s)))

IsSpace(c) == c = " " \/ c = "\n" \/ c = "\t"

\* str.strip(): the white space at both ends goes.
RECURSIVE strip(_)
strip(s) ==
    IF s = "" THEN ""
    ELSE IF IsSpace(CharAt(s, 1)) THEN strip(SubSeq(s, 2, Len(s)))
    ELSE IF IsSpace(CharAt(s, Len(s))) THEN strip(SubSeq(s, 1, Len(s) - 1))
    ELSE s

\* Python's "sub in text".
Contains(text, sub) ==
    \E i \in 1..(Len(text) - Len(sub) + 1) : SubSeq(text, i, i + Len(sub) - 1) = sub

\* Python's any(k in text for k in keywords).
AnyIn(keywords, text) == \E k \in 1..Len(keywords) : Contains(text, keywords[k])

\* f"{title} {summary}"
TitleAndSummary(title, summary) == title \o " " \o summary

----------------------------------------------------------------------------
(* auto_news/event_classifier.py: the event classification *)

\* The keys of EVENT_PRIORITY in the order of the dict.
EVENT_TYPES == <<"BREAKING", "ACQUISITION", "LAYOFFS", "LAWSUIT", "FUNDING", "VIRAL", "ROUTINE">>

\* A table that puts FUNDING in the first tier.
EVENT_PRIORITY_funding1 ==
    [BREAKING |-> 1, ACQUISITION |-> 1, LAYOFFS |-> 1, LAWSUIT |-> 1,
     FUNDING |-> 1, VIRAL |-> 2, ROUTINE |-> 3]

EVENT_PRIORITY ==
    [BREAKING |-> 1, ACQUISITION |-> 1, LAYOFFS |-> 1, LAWSUIT |-> 1,
     FUNDING |-> 2, VIRAL |-> 2, ROUTINE |-> 3]

\* EVENT_SIGNALS in the order of the dict.
EVENT_SIGNALS == <<
    [event_type |-> "BREAKING", keywords |->
        <<"launches", "released", "announces", "unveils", "introduces", "debuts",
          "now available", "ships", "rolls out", "goes live", "officially">>],
    [event_type |-> "ACQUISITION", keywords |->
        <<"acquires", "acquisition", "buys", "bought", "merger", "deal",
          "takes over", "purchase">>],
    [event_type |-> "LAYOFFS", keywords |->
        <<"layoffs", "lays off", "cuts", "job cuts", "eliminates", "reduces workforce",
          "restructure", "downsizing", "firing">>],
    [event_type |-> "LAWSUIT", keywords |->
        <<"sues", "lawsuit", "sued", "court", "legal", "antitrust", "investigation",
          "ban", "blocks", "halts", "orders", "ruling">>],
    [event_type |-> "FUNDING", keywords |->
        <<"raises", "funding", "valuation", "series a", "series b", "series c",
          "investment", "backed", "secures">>],
    [event_type |-> "VIRAL", keywords |->
        <<"trending", "viral", "explodes", "blows up", "everyone is talking">> ] >>

HIGH_PROFILE_ENTITIES == <<
    "openai", "google", "apple", "microsoft", "meta", "amazon", "nvidia",
    "tesla", "anthropic", "mistral", "chatgpt", "gpt-5", "gpt-4", "gemini",
    "claude", "waymo", "x.ai", "deepmind", "stability ai", "midjourney">>

\* The loop returning the type with the most keywords in the text (the first
\* of them on a tie).
FirstSignal_most_matches(text) ==
    LET MatchCountOf(k) ==
            Cardinality({i \in 1..Len(EVENT_SIGNALS[k].keywords) :
                            Contains(text, EVENT_SIGNALS[k].keywords[i])})
    IN IF \E k \in 1..Len(EVENT_SIGNALS) : MatchCountOf(k) > 0
       THEN CHOOSE k \in 1..Len(EVENT_SIGNALS) :
               /\ \A j \in 1..Len(EVENT_SIGNALS) : MatchCountOf(j) <= MatchCountOf(k)
               /\ \A j \in 1..(k - 1) : MatchCountOf(j) < MatchCountOf(k)
       ELSE 0

\* The loop over EVENT_SIGNALS.items(): the index of the first type one of
\* whose keywords is in the text, 0 when the loop ends without a return.
RECURSIVE FirstSignalFrom(_, _)
FirstSignalFrom(k, text) ==
    IF k > Len(EVENT_SIGNALS) THEN 0
    ELSE IF AnyIn(EVENT_SIGNALS[k].keywords, text) THEN k
    ELSE FirstSignalFrom(k + 1, text)

FirstSignal(text) == FirstSignalFrom(1, text)

classify_event_fast(title, summary) ==
    LET text == lower(TitleAndSummary(title, summary))
        has_high_profile == AnyIn(HIGH_PROFILE_ENTITIES, text)
        k == FirstSignal(text)
    IN IF k # 0
       THEN [event_type |-> EVENT_SIGNALS[k].event_type,
             priority |-> EVENT_PRIORITY[EVENT_SIGNALS[k].event_type],
             confidence |-> "keyword_match",
             high_profile |-> has_high_profile]
       ELSE [event_type |-> "ROUTINE",
             priority |-> EVENT_PRIORITY["ROUTINE"],
             confidence |-> "default",
             high_profile |-> has_high_profile]

\* What the chat completion call of classify_event_groq can do: reply with a
\* text, raise (an API error), time out (the client raises), or hand back a
\* response object that cannot be read (no choices, content None).
ExternalKinds == {"reply", "exception", "timeout", "unreadable"}

\* The first key of EVENT_PRIORITY that is in the reply, 0 when there is none
\* (the for ... else of the validation).
RECURSIVE FirstLabelFrom(_, _)
FirstLabelFrom(k, result) ==
    IF k > Len(EVENT_TYPES) THEN 0
    ELSE IF Contains(result, EVENT_TYPES[k]) THEN k
    ELSE FirstLabelFrom(k + 1, result)

FirstLabelIn(result) == FirstLabelFrom(1, result)

\* A validation without the search of a label inside the reply.
ValidatedType_exact_only(result, fast_result) ==
    IF \E k \in 1..Len(EVENT_TYPES) : EVENT_TYPES[k] = result
    THEN result
    ELSE fast_result.event_type

\* event_type after the validation of the trimmed, upper-cased reply.
ValidatedType(result, fast_result) ==
    IF result \in DOMAIN EVENT_PRIORITY
    THEN result
    ELSE IF FirstLabelIn(result) # 0
         THEN EVENT_TYPES[FirstLabelIn(result)]
         ELSE fast_result.event_type

\* A returned value: <<v>>; nothing returned because the call raised: <<>>.
Returned(v) == [raised |-> FALSE, value |-> <<v>>]
Raised == [raised |-> TRUE, value |-> <<>>]

\* classify_event_groq whose try covers the call only, not the reading of the
\* response.
classify_event_groq_narrow_try(external, title, summary) ==
    IF external.kind \in {"exception", "timeout"}
    THEN Returned(classify_event_fast(title, summary))
    ELSE IF external.kind = "unreadable"
    THEN Raised
    ELSE Returned(
           [event_type |-> ValidatedType(upper(strip(external.content)),
                                         classify_event_fast(title, summary)),
            priority |-> EVENT_PRIORITY[ValidatedType(upper(strip(external.content)),
                                                      classify_event_fast(title, summary))],
            confidence |-> "groq",
            high_profile |-> classify_event_fast(title, summary).high_profile])

\* classify_event_groq(client, title, summary) with the outcome of the call.
classify_event_groq(external, title, summary) ==
    LET fast_result == classify_event_fast(title, summary)
    IN IF external.kind # "reply"
       THEN Returned(fast_result)                   \* except Exception: return fast_result
       ELSE LET result == upper(strip(external.content))
                event_type == ValidatedType(result, fast_result)
            IN Returned([event_type |-> event_type,
                         priority |-> EVENT_PRIORITY[event_type],
                         confidence |-> "groq",
                         high_profile |-> fast_result.high_profile])

\* classification["boost"] = True for a high-profile BREAKING, ACQUISITION or LAYOFFS.
WithBoost(classification) ==
    IF classification.high_profile
       /\ classification.event_type \in {"BREAKING", "ACQUISITION", "LAYOFFS"}
    THEN [boost |-> TRUE] @@ classification
    ELSE classification

\* classify_article(article, use_groq): external.use_groq is the argument,
\* external.client tells whether get_groq_client returned a client.
classify_article(article, external) ==
    LET title == article.title
        summary == article.summary
        called == IF external.use_groq /\ external.client
                  THEN classify_event_groq(external, title, summary)
                  ELSE Returned(classify_event_fast(title, summary))
    IN IF called.raised
       THEN Raised
       ELSE Returned([event_classification |-> WithBoost(called.value[1])] @@ article)

----------------------------------------------------------------------------
(* auto_news/fast_sources.py: trending signals *)

IsLowerLetter(c) == IsIn(LowerLetters, c)
\* \w of the regular expressions, on the characters of the model.
IsWordChar(c) == IsIn(LowerLetters, c) \/ IsIn(UpperLetters, c) \/ IsIn(DigitsAndUnderscore, c)

\* re.findall(r'\b[a-z]{3,}\b', text): the runs of at least 3 lower-case
\* letters that start and end at a word boundary.
\* The end of the run of lower-case letters that holds position i.
RECURSIVE RunEnd(_, _)
RunEnd(text, i) ==
    IF i < Len(text) /\ IsLowerLetter(CharAt(text, i + 1)) THEN RunEnd(text, i + 1) ELSE i

Words(text) ==
    {SubSeq(text, i, RunEnd(text, i)) :
        i \in {j \in 1..Len(text) :
                /\ IsLowerLetter(CharAt(text, j))
                /\ (j = 1 \/ ~IsWordChar(CharAt(text, j - 1)))
                /\ RunEnd(text, j) - j + 1 >= 3
                /\ (RunEnd(text, j) = Len(text)
                        \/ ~IsWordChar(CharAt(text, RunEnd(text, j) + 1)))}}

stop_words == {
    "the", "and", "for", "are", "but", "not", "you", "all", "can", "had",
    "her", "was", "one", "our", "out", "day", "get", "has", "him", "his",
    "how", "its", "may", "new", "now", "old", "see", "way", "who", "did",
    "been", "have", "from", "this", "that", "with", "they", "will", "what",
    "when", "your", "said", "each", "just", "like", "over", "such", "into",
    "year", "some", "could", "them", "than", "then", "being", "about", "after"}

tech_terms == {
    "openai", "google", "apple", "microsoft", "meta", "amazon", "nvidia",
    "tesla", "anthropic", "chatgpt", "gpt", "gemini", "claude", "waymo",
    "robotaxi", "autonomous", "robot", "drone", "model", "launch", "release",
    "acquisition", "funding", "startup", "developer", "programming", "code"}

extract_keywords(text) ==
    {word \in Words(lower(text)) :
        word \in tech_terms \/ (word \notin stop_words /\ Len(word) > 3)}

\* A trending signal as the fetchers build it: the keywords are those of the title.
Signal(title, score) == [title |-> title, score |-> score, keywords |-> extract_keywords(title)]

\* The signals in the order of the two loops: reddit, hackernews, github, each
\* in list order.
SignalsInOrder(signals) ==
    [k \in 1..Len(signals.reddit) |-> [source |-> "reddit", signal |-> signals.reddit[k]]]
    \o [k \in 1..Len(signals.hackernews) |->
            [source |-> "hackernews", signal |-> signals.hackernews[k]]]
    \o [k \in 1..Len(signals.github) |-> [source |-> "github", signal |-> signals.github[k]]]

\* The length of signal_title.
SIGNAL_TITLE_LEN == 100

\* The body of the inner loop: best_match and best_score after this signal.
\* best_match is <<>> for None and <<match>> for a match.
AfterSignal(best, entry, article_keywords, min_matches) ==
    LET matches == article_keywords \cap entry.signal.keywords
        match_count == Cardinality(matches)
        score == match_count * entry.signal.score
    IN IF match_count >= min_matches /\ score > best.best_score
       THEN [best_score |-> score,
             best_match |-> <<[matched |-> TRUE,
                               signal_source |-> entry.source,
                               signal_title |-> Take(entry.signal.title, SIGNAL_TITLE_LEN),
                               signal_score |-> entry.signal.score,
                               matched_keywords |-> matches,
                               match_strength |-> match_count,
                               combined_score |-> score]>>]
       ELSE best

RECURSIVE AfterSignals(_, _, _, _)
AfterSignals(entries, n, article_keywords, min_matches) ==
    IF n = 0 THEN [best_score |-> 0, best_match |-> <<>>]
    ELSE AfterSignal(AfterSignals(entries, n - 1, article_keywords, min_matches),
                     entries[n], article_keywords, min_matches)

match_article_to_signals(article, signals, min_matches) ==
    LET article_text == lower(TitleAndSummary(article.title, article.summary))
        article_keywords == extract_keywords(article_text)
        entries == SignalsInOrder(signals)
    IN AfterSignals(entries, Len(entries), article_keywords, min_matches).best_match

\* min_matches of match_article_to_signals as boost_viral_articles calls it.
DEFAULT_MIN_MATCHES == 2

\* The upgrade made whatever the event type is.
Boosted_any_type(article, match) ==
    IF "event_classification" \in DOMAIN article
    THEN [event_classification |->
              [event_type |-> "VIRAL", priority |-> 2, viral_boost |-> TRUE]
                  @@ article.event_classification,
          viral_match |-> match] @@ article
    ELSE [viral_match |-> match] @@ article

\* The upgrade that sets the type and leaves the tier.
Boosted_type_only(article, match) ==
    IF "event_classification" \in DOMAIN article
       /\ article.event_classification.event_type = "ROUTINE"
    THEN [event_classification |->
              [event_type |-> "VIRAL", viral_boost |-> TRUE] @@ article.event_classification,
          viral_match |-> match] @@ article
    ELSE [viral_match |-> match] @@ article

\* The body of "if match:" for one article.
Boosted(article, match) ==
    IF "event_classification" \in DOMAIN article
       /\ article.event_classification.event_type = "ROUTINE"
    THEN [event_classification |->
              [event_type |-> "VIRAL", priority |-> 2, viral_boost |-> TRUE]
                  @@ article.event_classification,
          viral_match |-> match] @@ article
    ELSE [viral_match |-> match] @@ article

\* boost_viral_articles(articles, signals) with signals given.
boost_viral_articles(list, signals) ==
    [k \in 1..Len(list) |->
        LET match == match_article_to_signals(list[k], signals, DEFAULT_MIN_MATCHES)
        IN IF match # <<>> THEN Boosted(list[k], match[1]) ELSE list[k]]

----------------------------------------------------------------------------
(* Calls of the classifier and of the trending matcher *)

\* Bounds of the inputs.
MaxTitleWords == 2      \* most words of a candidate's title
MaxSignals == 2         \* most trending signals, all sources together

RECURSIVE Join(_)
Join(ws) == IF Len(ws) = 1 THEN ws[1] ELSE ws[1] \o " " \o Join(Tail(ws))

\* Titles and summaries of candidates: words that trigger an event type
\* ("launches", "raises", "ban", "viral", "funding"), that hold a trigger inside
\* another word ("Ideal"), that make a trigger phrase across the two fields
\* ("now" / "available"), a high-profile name and a word without meaning here.
TitleWords == {"OpenAI", "launches", "raises", "Ideal", "ban", "weekly", "now"}
Titles == {Join(ws) : ws \in SeqsUpTo(TitleWords, MaxTitleWords) \ {<<>>}}
Summaries == {"", "available", "funding", "viral"}
Candidates == [title : Titles, summary : Summaries]

\* Candidates that share keywords with the trending signals below.
SignalCandidates == {
    [title |-> "OpenAI robot model", summary |-> ""],
    [title |-> "Weekly robot ban", summary |-> "a new model"],
    [title |-> "Anthropic raises $2B", summary |-> "robot model funding"]}

LongSignalTitle ==
    "Robot model launch megathread: what the developer community makes of the autonomous drone startup this week"

\* Trending signals: a title with and without engagement, a second title whose
\* score makes the two products equal on the first candidate, and a title
\* longer than SIGNAL_TITLE_LEN.
SignalValues == {Signal("OpenAI robot model", 0), Signal("OpenAI robot model", 2),
                 Signal("Robot model launch", 3), Signal(LongSignalTitle, 3)}
Sources == {"reddit", "hackernews", "github"}
TaggedSignals == [source : Sources, signal : SignalValues]

\* The signals dict made of tagged signals, each source's list in the order given.
BySource(tagged) ==
    LET Of(src) == LET Is(e) == e.source = src
                       own == SelectSeq(tagged, Is)
                   IN [k \in 1..Len(own) |-> own[k].signal]
    IN [reddit |-> Of("reddit"), hackernews |-> Of("hackernews"), github |-> Of("github")]

NoSignals == [reddit |-> <<>>, hackernews |-> <<>>, github |-> <<>>]

SignalSets(n) == {BySource(tagged) : tagged \in SeqsUpTo(TaggedSignals, n)}

\* What the model lets the external classifier do in one call.
Replies == {"BREAKING", "ROUTINE", "funding\n", " Layoffs ", "Category: LAWSUIT",
            "VIRAL or ROUTINE", "unsure", ""}
GroqCalls == {[use_groq |-> TRUE, client |-> TRUE, kind |-> "reply", content |-> r] : r \in Replies}
             \cup {[use_groq |-> TRUE, client |-> TRUE, kind |-> k, content |-> ""] :
                      k \in ExternalKinds \ {"reply"}}
\* use_groq = False, or no API key: the call is not made.
NoGroqCall == {[use_groq |-> FALSE, client |-> TRUE, kind |-> "reply", content |-> ""],
               [use_groq |-> TRUE, client |-> FALSE, kind |-> "reply", content |-> ""]}
NoExternal == [use_groq |-> FALSE, client |-> FALSE, kind |-> "reply", content |-> ""]

MinMatches == {1, 2, 3}

NoResult == [op |-> "none", external |-> NoExternal, arg |-> 0, raised |-> FALSE, value |-> <<>>]

Unclassified(list) == {k \in 1..Len(list) : "event_classification" \notin DOMAIN list[k]}
Untouched(list) ==
    \A k \in 1..Len(list) : DOMAIN list[k] = {"title", "summary"}

\* classify_event_fast(title, summary) called on the first candidate.
ClassifyEventFast ==
    /\ cpc = "input"
    /\ Untouched(article_list)
    /\ last_call' = [op |-> "classify_event_fast", external |-> NoExternal, arg |-> 1,
                  raised |-> FALSE,
                  value |-> <<classify_event_fast(article_list[1].title, article_list[1].summary)>>]
    /\ cpc' = "returned"
    /\ UNCHANGED <<article_list, trending, pubVars, runVars, histVars, svcVars>>

\* classify_event_groq(client, title, summary) called on the first candidate.
ClassifyEventGroq ==
    /\ cpc = "input"
    /\ Untouched(article_list)
    /\ \E external \in GroqCalls :
         LET r == classify_event_groq(external, article_list[1].title, article_list[1].summary)
         IN last_call' = [op |-> "classify_event_groq", external |-> external, arg |-> 1,
                       raised |-> r.raised, value |-> r.value]
    /\ cpc' = "returned"
    /\ UNCHANGED <<article_list, trending, pubVars, runVars, histVars, svcVars>>

\* classify_article(article, use_groq) on the next candidate of the list, as in
\* the loop of run_pipeline; an exception ends the classification.
ClassifyArticle ==
    /\ cpc = "input"
    /\ Unclassified(article_list) # {}
    /\ \A k \in 1..Len(article_list) : "viral_match" \notin DOMAIN article_list[k]
    /\ LET k == CHOOSE i \in Unclassified(article_list) : \A j \in Unclassified(article_list) : i <= j
       IN \E external \in GroqCalls \cup NoGroqCall :
            LET r == classify_article(article_list[k], external)
            IN /\ last_call' = [op |-> "classify_article", external |-> external, arg |-> k,
                             raised |-> r.raised, value |-> <<>>]
               /\ article_list' = IF r.raised THEN article_list ELSE [article_list EXCEPT ![k] = r.value[1]]
               /\ cpc' = IF r.raised THEN "raised" ELSE "input"
    /\ UNCHANGED <<trending, pubVars, runVars, histVars, svcVars>>

\* boost_viral_articles(articles, signals) on the list, classified or not.
BoostViralArticles ==
    /\ cpc = "input"
    /\ article_list' = boost_viral_articles(article_list, trending)
    /\ last_call' = [op |-> "boost_viral_articles", external |-> NoExternal, arg |-> 0,
                  raised |-> FALSE, value |-> <<>>]
    /\ cpc' = "boosted"
    /\ UNCHANGED <<trending, pubVars, runVars, histVars, svcVars>>

\* match_article_to_signals(article, signals, min_matches) on the first candidate.
MatchArticleToSignals ==
    /\ cpc = "input"
    /\ Untouched(article_list)
    /\ \E min_matches \in MinMatches :
         last_call' = [op |-> "match_article_to_signals", external |-> NoExternal,
                    arg |-> min_matches, raised |-> FALSE,
                    value |-> match_article_to_signals(article_list[1], trending, min_matches)]
    /\ cpc' = "returned"
    /\ UNCHANGED <<article_list, trending, pubVars, runVars, histVars, svcVars>>

\* extract_keywords(text) on the text of the first candidate.
ExtractKeywords ==
    /\ cpc = "input"
    /\ Untouched(article_list)
    /\ last_call' = [op |-> "extract_keywords", external |-> NoExternal, arg |-> 1,
                  raised |-> FALSE,
                  value |-> <<extract_keywords(
                                 TitleAndSummary(article_list[1].title, article_list[1].summary))>>]
    /\ cpc' = "returned"
    /\ UNCHANGED <<article_list, trending, pubVars, runVars, histVars, svcVars>>

\* The candidates above as the matcher can meet them: not classified yet, or
\* classified by classify_article without the external classifier or with one
\* of two replies.
ClassifiedBefore ==
    {[use_groq |-> FALSE, client |-> TRUE, kind |-> "reply", content |-> ""],
     [use_groq |-> TRUE, client |-> TRUE, kind |-> "reply", content |-> "ROUTINE"],
     [use_groq |-> TRUE, client |-> TRUE, kind |-> "reply", content |-> "BREAKING"]}
SignalItems ==
    SignalCandidates
    \cup {classify_article(c, external).value[1] :
              c \in SignalCandidates, external \in ClassifiedBefore}

\* The classifier and the matcher are not in use.
ClsInit ==
    /\ article_list = <<>>
    /\ trending = NoSignals
    /\ cpc = "none"
    /\ last_call = NoResult

----------------------------------------------------------------------------
(* auto_news/publisher.py: save_article_to_db called on its own *)

\* Most calls of save_article_to_db in one behaviour: enough to fill the ledger
\* and to push entries out of it.
MaxSaves == MAX_LEDGER + 2

\* save_article_to_db(article) called by a caller of its own (no membership
\* check): the entry goes to index 0 and the list is cut; the call returns what
\* save_articles_db returned.
SaveArticleToDb ==
    /\ Len(saved) < MaxSaves
    /\ \E article \in GeneratedArticles, dbOk \in BOOLEAN :
        /\ ledger' = save_article_to_db(article, ledger, dbOk)
        /\ ret' = dbOk
        /\ call' = [op |-> "save_article_to_db", id |-> article.id]
        /\ saved' = IF dbOk THEN <<LedgerEntry(article)>> \o saved ELSE saved
    /\ UNCHANGED <<files, batch, runVars, histVars, clsVars, workers, wait, pool, mainVars>>

----------------------------------------------------------------------------
(* auto_news/publisher.py: publish_article in two runs at the same time *)

\* The runs that publish side by side.
Runs == {1, 2}

\* Most publish_article calls of one run.
MaxCalls == 1

NoArticle == [id |-> 0, slug |-> ""]
IdleWorker == [pc |-> "idle", article |-> NoArticle, db |-> <<>>, calls |-> 0]

OtherRun(r) == CHOOSE q \in Runs : q # r

\* A step of run r: the other run is inside a publish_article call, or not.
Overlap(r) == workers.overlapped \/ workers.proc[OtherRun(r)].pc # "idle"

\* The call of run r returns v.
WorkerReturn(r, v) ==
    /\ workers' = [proc |-> [workers.proc EXCEPT ![r] =
                                [pc |-> "idle", article |-> NoArticle, db |-> <<>>,
                                 calls |-> @.calls + 1]],
                   overlapped |-> Overlap(r)]
    /\ ret' = v
    /\ call' = [op |-> "publish_article", id |-> workers.proc[r].article.id]

\* The call of run r moves on to position next.
WorkerGoes(r, next) ==
    /\ workers' = [proc |-> [workers.proc EXCEPT ![r].pc = next],
                   overlapped |-> Overlap(r)]
    /\ UNCHANGED <<ret, call>>

\* Run r enters publish_article(article).
WorkerBegin(r) ==
    /\ workers.proc[r].pc = "idle"
    /\ workers.proc[r].calls < MaxCalls
    /\ \E article \in GeneratedArticles :
        workers' = [proc |-> [workers.proc EXCEPT ![r] =
                                [@ EXCEPT !.pc = "article_exists", !.article = article]],
                    overlapped |-> Overlap(r)]
    /\ UNCHANGED <<ledger, files, ret, call, batch, saved, wait, pool, mainVars, runVars, histVars, clsVars>>

\* if article_exists(article.get('id')): return False
WorkerArticleExists(r) ==
    /\ workers.proc[r].pc = "article_exists"
    /\ IF article_exists(workers.proc[r].article.id, ledger)
       THEN WorkerReturn(r, FALSE)
       ELSE WorkerGoes(r, "save_article_html")
    /\ UNCHANGED <<ledger, files, batch, saved, wait, pool, mainVars, runVars, histVars, clsVars>>

\* filepath = save_article_html(article); if not filepath: return False
WorkerSaveArticleHtml(r) ==
    /\ workers.proc[r].pc = "save_article_html"
    /\ \E htmlOk \in BOOLEAN :
        /\ files' = save_article_html(workers.proc[r].article, files, htmlOk)
        /\ IF htmlOk THEN WorkerGoes(r, "load_articles_db") ELSE WorkerReturn(r, FALSE)
    /\ UNCHANGED <<ledger, batch, saved, wait, pool, mainVars, runVars, histVars, clsVars>>

\* save_article_to_db: db = load_articles_db()
WorkerLoadArticlesDb(r) ==
    /\ workers.proc[r].pc = "load_articles_db"
    /\ workers' = [proc |-> [workers.proc EXCEPT ![r] =
                                [@ EXCEPT !.pc = "save_articles_db", !.db = ledger]],
                   overlapped |-> Overlap(r)]
    /\ UNCHANGED <<ledger, files, ret, call, batch, saved, wait, pool, mainVars, runVars, histVars, clsVars>>

\* save_article_to_db: insert, cut, save_articles_db(db) on the db loaded
\* before; publish_article returns True.
WorkerSaveArticlesDb(r) ==
    /\ workers.proc[r].pc = "save_articles_db"
    /\ \E dbOk \in BOOLEAN :
        /\ ledger' = IF dbOk
                     THEN save_article_to_db(workers.proc[r].article, workers.proc[r].db, TRUE)
                     ELSE ledger
        /\ saved' = IF dbOk THEN <<LedgerEntry(workers.proc[r].article)>> \o saved ELSE saved
    /\ WorkerReturn(r, TRUE)
    /\ UNCHANGED <<files, batch, wait, pool, mainVars, runVars, histVars, clsVars>>

\* Nothing was written by calls followed one by one, and no run is publishing.
LedgerCallsInit ==
    /\ saved = <<>>
    /\ workers = [proc |-> [r \in Runs |-> IdleWorker], overlapped |-> FALSE]

----------------------------------------------------------------------------
(* auto_news/image_generator.py: waiting for the image *)

\* Time is counted in sleeps of wait_for_generation: one unit is time.sleep(5).
\* max_wait is 120 seconds in the code, 24 units; scaled down here.
MAX_WAIT == 3

\* Longest time, in units, a status request that answers takes.
MaxRequest == 1

\* What one status request can do: answer with a status (COMPLETE with an image
\* url, without images, or with an image whose url is null), raise (connection
\* error, HTTP error, a body that is not JSON), or never answer: requests.get is
\* called without a timeout.
PollOutcomes == {"PENDING", "COMPLETE", "COMPLETE_NO_IMAGES", "COMPLETE_NULL_URL",
                 "FAILED", "error", "no_answer"}

\* None and the url of the image.
NoUrl == <<>>
Url == <<"url">>

NoWait == [pc |-> "none", max_wait |-> 0, elapsed |-> 0, polls |-> 0, status |-> "",
           image_url |-> NoUrl, featured_image |-> ""]

\* generate_featured_image has a generation id and calls
\* wait_for_generation(generation_id): start_time = time.time().
WaitStart(max_wait) ==
    [pc |-> "while", max_wait |-> max_wait, elapsed |-> 0, polls |-> 0, status |-> "",
     image_url |-> NoUrl, featured_image |-> ""]

\* while time.time() - start_time < max_wait: ... ; after the loop: return None.
WaitWhile ==
    /\ wait.pc = "while"
    /\ wait' = IF wait.elapsed < wait.max_wait
               THEN [wait EXCEPT !.pc = "get"]
               ELSE [wait EXCEPT !.pc = "returned", !.image_url = NoUrl, !.status = "timed out"]
    /\ UNCHANGED <<pubVars, runVars, histVars, clsVars, saved, workers, pool, mainVars>>

\* response = requests.get(url, headers=get_headers()) and the reading of the
\* status; an exception of the request or of the reading is caught in the loop.
WaitGet ==
    /\ wait.pc = "get"
    /\ \E outcome \in PollOutcomes, took \in 0..MaxRequest :
        wait' =
            IF outcome = "no_answer"
            THEN [wait EXCEPT !.pc = "blocked", !.status = outcome, !.polls = @ + 1]
            ELSE LET w == [wait EXCEPT !.elapsed = @ + took, !.status = outcome,
                                       !.polls = @ + 1]
                 IN CASE outcome = "COMPLETE" ->
                            [w EXCEPT !.pc = "returned", !.image_url = Url]
                      [] outcome \in {"COMPLETE_NO_IMAGES", "FAILED"} ->
                            [w EXCEPT !.pc = "returned", !.image_url = NoUrl]
                      [] OTHER -> [w EXCEPT !.pc = "sleep"]
    /\ UNCHANGED <<pubVars, runVars, histVars, clsVars, saved, workers, pool, mainVars>>

\* time.sleep(5), in the loop body and in the except branch.
WaitSleep ==
    /\ wait.pc = "sleep"
    /\ wait' = [wait EXCEPT !.pc = "while", !.elapsed = @ + 1]
    /\ UNCHANGED <<pubVars, runVars, histVars, clsVars, saved, workers, pool, mainVars>>

\* generate_featured_image after wait_for_generation: the placeholder when no
\* url came back or the download failed, the image otherwise.
WaitReturned ==
    /\ wait.pc = "returned"
    /\ \E downloaded \in BOOLEAN :
        wait' = [wait EXCEPT !.pc = "done",
                             !.featured_image = IF wait.image_url # NoUrl /\ downloaded
                                                THEN "generated" ELSE "placeholder"]
    /\ UNCHANGED <<pubVars, runVars, histVars, clsVars, saved, workers, pool, mainVars>>

\* No image is waited for.
WaitInit ==
    /\ wait = NoWait

----------------------------------------------------------------------------
(* auto_news/rss_fetcher.py: fetching the feeds in worker threads *)

\* The feeds handed to fetch_all_feeds (RSS_FEEDS has six).
Feeds == {"f1", "f2", "f3"}

\* ThreadPoolExecutor(max_workers=6): threads running at the same time, scaled.
MAX_WORKERS == 2

\* Most entries of one feed.
MaxEntries == 2

\* executor.submit(fetch_single_feed, feed): the call waits for a thread.
SubmittedFuture == [state |-> "submitted", entry |-> 0, articles |-> <<>>, raised |-> "none"]

NoPool == [pc |-> "none", future |-> [f \in Feeds |-> SubmittedFuture], all_articles |-> <<>>]

\* all_articles = [] and every feed submitted.
PoolStart == [NoPool EXCEPT !.pc = "as_completed"]

Running == {f \in Feeds : pool.future[f].state \in {"parse", "entries"}}

\* all_articles.extend(articles)
extend_replaces(acc, more) ==
    more

extend(acc, more) ==
    acc \o more

\* A thread of the executor takes the call: articles = [].
FetchStart(f) ==
    /\ pool.pc = "as_completed"
    /\ pool.future[f].state = "submitted"
    /\ Cardinality(Running) < MAX_WORKERS
    /\ pool' = [pool EXCEPT !.future[f].state = "parse"]
    /\ UNCHANGED <<pubVars, runVars, histVars, clsVars, saved, workers, wait, mainVars>>

\* feed = feedparser.parse(feed_info['url']): returns the feed or raises; the
\* exception is caught and the empty list returned.
FetchParse(f) ==
    /\ pool.future[f].state = "parse"
    /\ \E parsed \in BOOLEAN :
        pool' = IF parsed
                THEN [pool EXCEPT !.future[f].state = "entries"]
                ELSE [pool EXCEPT !.future[f].state = "finished",
                                  !.future[f].raised = "parse"]
    /\ UNCHANGED <<pubVars, runVars, histVars, clsVars, saved, workers, wait, mainVars>>

\* for entry in feed.entries: the entry is appended when it has a title and a
\* link, skipped when it has not; an entry that raises (a date or a summary of
\* the wrong type) ends the loop in the except branch, and the articles
\* appended so far are returned. After the last entry the list is returned.
FetchEntry(f) ==
    /\ pool.future[f].state = "entries"
    /\ \E step \in {"article", "skipped", "raises", "end"} :
        LET fut == pool.future[f]
            k == fut.entry + 1
        IN /\ step \in {"article", "skipped", "raises"} => fut.entry < MaxEntries
           /\ pool' =
                CASE step = "article" ->
                        [pool EXCEPT !.future[f].entry = k,
                                     !.future[f].articles =
                                         Append(@, [source |-> f, entry |-> k])]
                  [] step = "skipped" -> [pool EXCEPT !.future[f].entry = k]
                  [] step = "raises" ->
                        [pool EXCEPT !.future[f].state = "finished",
                                     !.future[f].raised = "entry"]
                  [] OTHER -> [pool EXCEPT !.future[f].state = "finished"]
    /\ UNCHANGED <<pubVars, runVars, histVars, clsVars, saved, workers, wait, mainVars>>

\* for future in as_completed(future_to_feed): the calling thread takes a
\* finished future, whichever it is, and extends all_articles with its result.
FetchCompleted(f) ==
    /\ pool.pc = "as_completed"
    /\ pool.future[f].state = "finished"
    /\ pool' = [pool EXCEPT !.future[f].state = "merged",
                            !.all_articles = extend(@, pool.future[f].articles)]
    /\ UNCHANGED <<pubVars, runVars, histVars, clsVars, saved, workers, wait, mainVars>>

\* Every future was yielded: the executor is shut down, return all_articles.
FetchAllReturn ==
    /\ pool.pc = "as_completed"
    /\ \A f \in Feeds : pool.future[f].state = "merged"
    /\ pool' = [pool EXCEPT !.pc = "returned"]
    /\ UNCHANGED <<pubVars, runVars, histVars, clsVars, saved, workers, wait, mainVars>>

\* No feed is being fetched.
PoolInit ==
    /\ pool = NoPool

----------------------------------------------------------------------------
(* auto_news/orchestrator.py: the results of run_pipeline *)

\* results = {...} at the entry of run_pipeline.
NoResults ==
    [articles_fetched |-> 0, articles_classified |-> 0, articles_relevant |-> 0,
     breaking_count |-> 0, high_priority_count |-> 0, routine_count |-> 0,
     articles_generated |-> 0, articles_published |-> 0,
     errors |-> <<>>, published_articles |-> <<>>]

\* Nothing failed and publish_article returned True for nothing yet.
NothingHappened == [faults |-> {}, published |-> <<>>]

\* main was not called.
MainInit ==
    /\ fetched_articles = <<>>
    /\ results = NoResults
    /\ happened = NothingHappened
    /\ exit_code = -1

SvcInit == LedgerCallsInit /\ WaitInit /\ PoolInit /\ MainInit

----------------------------------------------------------------------------
(* auto_news/orchestrator.py: the list sent to content generation *)

EmptyQueues == [breaking |-> <<>>, high |-> <<>>, routine |-> <<>>]

\* QUEUE_LIMITS with a routine cap of 2.
QUEUE_LIMITS_routine2 == [breaking |-> 5, high |-> 3, routine |-> 2]

QUEUE_LIMITS == [breaking |-> 5, high |-> 3, routine |-> 1]

\* The limit argument of run_pipeline: <<>> is None, <<n>> is the integer n.
NoLimit == <<>>

\* The high queue read before the breaking queue.
HighBeforeBreaking(q) ==
    Take(q.high, 3) \o Take(q.breaking, 5)

\* to_process after the breaking and the high queue were read.
UrgentAndElevated(q) ==
    Take(q.breaking, QUEUE_LIMITS.breaking) \o Take(q.high, QUEUE_LIMITS.high)

\* The filler added up to a selection of 2 ("<= 2" for "< 2").
WithRoutineFillerAtTwo(q) ==
    LET base == Take(q.breaking, 5) \o Take(q.high, 3)
    IN IF Len(q.breaking) = 0 /\ Len(q.high) = 0
       THEN base \o Take(q.routine, 1)
       ELSE IF Len(base) <= 2
            THEN base \o Take(q.routine, 1)
            ELSE base

\* to_process after the routine queue was read.
WithRoutine(q) ==
    LET base == UrgentAndElevated(q)
    IN IF Len(q.breaking) = 0 /\ Len(q.high) = 0
       THEN base \o Take(q.routine, QUEUE_LIMITS.routine)
       ELSE IF Len(base) < 2
            THEN base \o Take(q.routine, 1)
            ELSE base

\* "if limit:" holds for an integer other than 0.
LimitApplies(lim) == lim # NoLimit /\ lim[1] # 0

ApplyLimit(list, lim) == IF LimitApplies(lim) THEN Slice(list, lim[1]) ELSE list

select_to_process(q, lim) == ApplyLimit(WithRoutine(q), lim)

\* run_pipeline from get_publishing_queues to the limit (steps 5 and the
\* building of to_process), on the classified candidates of this run.
BuildQueues ==
    /\ pc = "classified"
    /\ queues' = get_publishing_queues(new_articles)
    /\ to_process' = select_to_process(get_publishing_queues(new_articles), limit)
    /\ pc' = "selected"
    /\ UNCHANGED <<relevant, new_articles, limit, test_mode, generated_articles, genLog, pubLog,
                   pubVars, histVars, clsVars, svcVars>>

\* Bounds of the inputs of the queue building.
MaxMixed == 4       \* classified lists of every order up to this length
MaxOver == 1        \* how far a bucket's size goes beyond its cap
MaxLimit == 3       \* the largest limit supplied

\* The list whose k-th candidate has the k-th kind; the id is the position.
Numbered(kinds) == [k \in 1..Len(kinds) |->
    [id |-> k, priority |-> kinds[k].priority, high_profile |-> kinds[k].high_profile]]

KindsOfTier(p, n) ==
    UNION {[1..k -> {c \in ClassKinds : c.priority = p}] : k \in 0..n}

\* Every classified list up to MaxMixed candidates, in every order.
MixedInputs == {Numbered(kinds) : kinds \in SeqsUpTo(ClassKinds, MaxMixed)}

\* Lists that fill each bucket up to beyond its cap, lowest tier first.
BulkInputs ==
    {Numbered(r \o h \o b) :
        r \in KindsOfTier(3, QUEUE_LIMITS.routine + MaxOver),
        h \in KindsOfTier(2, QUEUE_LIMITS.high + MaxOver),
        b \in KindsOfTier(1, QUEUE_LIMITS.breaking + MaxOver)}

Limits == {NoLimit} \cup {<<n>> : n \in (-1)..MaxLimit}

InitQ ==
    /\ new_articles \in MixedInputs \cup BulkInputs
    /\ relevant = [k \in 1..Len(new_articles) |-> new_articles[k].id]
    /\ limit \in Limits
    /\ test_mode = FALSE
    /\ queues = EmptyQueues
    /\ to_process = <<>>
    /\ pc = "classified"
    /\ generated_articles = <<>>
    /\ genLog = <<>>
    /\ pubLog = <<>>

----------------------------------------------------------------------------
(* auto_news/orchestrator.py: run_pipeline, one run at a time *)

\* Bounds of the runs.
MaxFetch == 2       \* most relevant candidates one run fetches
MaxInserts == 2     \* no run starts once an id has had this many ledger insertions
MaxRunLimit == 1    \* the largest limit a run is given

\* The relevant candidates of a run: deduplicate_articles leaves one candidate
\* per link, and the id is a function of the link.
Fetched == {ids \in SeqsUpTo(Ids, MaxFetch) :
               \A i, j \in 1..Len(ids) : i # j => ids[i] # ids[j]}

\* The early filter left out: every relevant candidate goes on.
NotInLedger_keeps_all(ids, db) == ids

\* new_articles = [a for a in relevant if not article_exists(a['id'])]
NotInLedger(ids, db) ==
    LET Fresh(i) == ~article_exists(i, db) IN SelectSeq(ids, Fresh)

\* What classify_article can attach to the candidates ids[1..]: the external
\* classifier decides the event type and so the tier.
Classified(ids) ==
    {[k \in 1..Len(ids) |->
        [id |-> ids[k], priority |-> kinds[k].priority,
         high_profile |-> kinds[k].high_profile]] :
     kinds \in [1..Len(ids) -> ClassKinds]}

RunLimits == {NoLimit} \cup {<<n>> : n \in 0..MaxRunLimit}

ResetRun ==
    /\ relevant' = <<>>
    /\ new_articles' = <<>>
    /\ limit' = NoLimit
    /\ test_mode' = FALSE
    /\ queues' = EmptyQueues
    /\ to_process' = <<>>
    /\ pc' = "idle"
    /\ generated_articles' = <<>>
    /\ genLog' = <<>>
    /\ pubLog' = <<>>

\* run_pipeline from its entry to the end of the event classification (steps
\* 1 to 4): an empty fetch, no relevant article or nothing new returns at once.
RunStart ==
    /\ pc = "idle"
    /\ \A i \in Ids : dbInserts[i] < MaxInserts
    /\ \E fetched \in Fetched, lim \in RunLimits, tm \in BOOLEAN :
        LET fresh == NotInLedger(fetched, ledger)
        IN IF fresh = <<>>
           THEN UNCHANGED runVars
           ELSE /\ relevant' = fetched
                /\ new_articles' \in Classified(fresh)
                /\ limit' = lim
                /\ test_mode' = tm
                /\ pc' = "classified"
                /\ UNCHANGED <<queues, to_process, generated_articles, genLog, pubLog>>
    /\ UNCHANGED <<pubVars, histVars, clsVars, svcVars>>

\* What generate_full_article and the image step make of one candidate: an
\* article with some slug, None, or an exception.
GenOutcomes == [kind : {"generated"}, slug : Slugs]
               \cup {[kind |-> "none", slug |-> "slug-a"], [kind |-> "raised", slug |-> "slug-a"]}

\* One iteration of the generation loop (step 6).
GenerateStep ==
    /\ pc = "selected"
    /\ Len(genLog) < Len(to_process)
    /\ LET article == to_process[Len(genLog) + 1]
       IN /\ genLog' = Append(genLog, article.id)
          /\ \E out \in GenOutcomes :
                generated_articles' =
                    IF out.kind = "generated"
                    THEN Append(generated_articles, [id |-> article.id, slug |-> out.slug])
                    ELSE generated_articles
    /\ UNCHANGED <<relevant, new_articles, limit, test_mode, queues, to_process, pc, pubLog,
                   pubVars, histVars, clsVars, svcVars>>

\* The generation loop is over (or to_process was empty): the run returns when
\* nothing was generated or in test mode, and enters publish_articles otherwise.
AfterGenerate ==
    /\ pc = "selected"
    /\ Len(genLog) = Len(to_process)
    /\ IF generated_articles = <<>> \/ test_mode
       THEN ResetRun /\ UNCHANGED pubVars
       ELSE /\ pc' = "publish"
            /\ batch' = [active |-> TRUE, done |-> 0, published_count |-> 0]
            /\ call' = [op |-> "publish_articles", id |-> 0]
            /\ UNCHANGED <<ledger, files, ret, relevant, new_articles, limit, test_mode, queues,
                           to_process, generated_articles, genLog, pubLog>>
    /\ UNCHANGED <<histVars, clsVars, svcVars>>

\* One iteration of the loop of publish_articles(generated_articles) (step 7).
RunPublishStep ==
    /\ pc = "publish"
    /\ Len(pubLog) < Len(generated_articles)
    /\ LET article == generated_articles[Len(pubLog) + 1]
       IN /\ pubLog' = Append(pubLog, article.id)
          /\ \E io \in IoOutcomes :
                LET r == publish_article(article, ledger, files, io)
                IN /\ ledger' = r.db
                   /\ files' = r.files
                   /\ ret' = r.ret
                   /\ call' = [op |-> "publish_article", id |-> article.id]
                   /\ batch' = [batch EXCEPT !.done = @ + 1,
                                   !.published_count = IF r.ret THEN @ + 1 ELSE @]
                   /\ dbInserts' = [dbInserts EXCEPT
                                        ![article.id] = IF r.inserted THEN @ + 1 ELSE @]
    /\ UNCHANGED <<relevant, new_articles, limit, test_mode, queues, to_process, pc,
                   generated_articles, genLog, clsVars, svcVars>>

\* publish_articles returned and run_pipeline returns its results.
RunReturn ==
    /\ pc = "publish"
    /\ Len(pubLog) = Len(generated_articles)
    /\ ResetRun
    /\ batch' = [active |-> FALSE, done |-> 0, published_count |-> 0]
    /\ ret' = batch.published_count
    /\ call' = [op |-> "publish_articles_return", id |-> 0]
    /\ UNCHANGED <<ledger, files, histVars, clsVars, svcVars>>

----------------------------------------------------------------------------
(* auto_news/orchestrator.py: main and run_pipeline with its results *)

\* Most articles the intake returns to one invocation.
MaxItems == 2

\* The fields every stage takes for granted on a candidate.
RequiredFields == {"id", "title", "summary", "link", "source"}

\* A fetched article as the stages see it: which required field it lacks
\* ("none": it is sound) and whether the topic classifier finds it relevant.
\* At most one article of an intake is defective. The list stands in the order
\* in which filter_relevant_articles leaves it.
ItemShapes == [missing : RequiredFields \cup {"none"}, relevant : BOOLEAN]

Intake ==
    {[k \in 1..Len(shapes) |->
        [id |-> k, missing |-> shapes[k].missing, relevant |-> shapes[k].relevant]] :
     shapes \in {sh \in SeqsUpTo(ItemShapes, MaxItems) :
                    \A i, j \in 1..Len(sh) :
                        (sh[i].missing # "none" /\ sh[j].missing # "none") => i = j}}

\* The ledger file main finds: a new site, or one that published article 1.
MainLedgers == {<<>>, <<[id |-> 1, slug |-> "slug-a"]>>}

\* An entry of results["errors"]: the exception caught around the steps
\* (str(e)), written with the step that raised and the article it raised on
\* (0: none), or the message of the generation loop about one article.
RunError(stage, id) == [level |-> "run", stage |-> stage, id |-> id]
ItemError(stage, id) == [level |-> "item", stage |-> stage, id |-> id]

\* The handler that forgets the error.
append_error_skips(res, e) ==
    res

\* results["errors"].append(...)
append_error(res, e) ==
    [res EXCEPT !.errors = Append(@, e)]

\* except Exception as e: results["errors"].append(str(e)), then the summary
\* and return results.
PipelineError(res, stage, id) ==
    /\ results' = append_error(res, RunError(stage, id))
    /\ happened' = [happened EXCEPT !.faults = @ \cup {[stage |-> stage, id |-> id]}]
    /\ pc' = "returned"

\* The first article of a list that lacks one of the fields (0: none does).
FirstMissing(list, fields) ==
    LET bad == {k \in 1..Len(list) : list[k].missing \in fields}
    IN IF bad = {} THEN 0 ELSE CHOOSE k \in bad : \A j \in bad : k <= j

\* Step 1: articles = fetch_and_process_feeds(); nothing fetched returns.
MainFetch ==
    /\ pc = "step1"
    /\ \E raises \in BOOLEAN, items \in Intake :
        IF raises
        THEN /\ PipelineError(results, "fetch_and_process_feeds", 0)
             /\ UNCHANGED fetched_articles
        ELSE /\ fetched_articles' = items
             /\ results' = [results EXCEPT !.articles_fetched = Len(items)]
             /\ pc' = IF items = <<>> THEN "returned" ELSE "step2"
             /\ UNCHANGED happened
    /\ UNCHANGED <<pubVars, relevant, new_articles, limit, test_mode, queues, to_process,
                   generated_articles, genLog, pubLog, histVars, clsVars,
                   saved, workers, wait, pool, exit_code>>

\* Step 2: articles = classify_articles(articles). Both classifiers read
\* article['title'] and article['summary'] outside any try.
MainClassifyTopics ==
    /\ pc = "step2"
    /\ \E raises \in BOOLEAN :
        LET k == FirstMissing(fetched_articles, {"title", "summary"})
        IN IF raises
           THEN PipelineError(results, "classify_articles", 0)
           ELSE IF k # 0
           THEN PipelineError(results, "classify_articles", fetched_articles[k].id)
           ELSE /\ results' = [results EXCEPT !.articles_classified = Len(fetched_articles)]
                /\ pc' = "step3"
                /\ UNCHANGED happened
    /\ UNCHANGED <<pubVars, relevant, new_articles, limit, test_mode, queues, to_process,
                   generated_articles, genLog, pubLog, histVars, clsVars,
                   saved, workers, wait, pool, fetched_articles, exit_code>>

IsRelevant(a) == a.relevant

\* Step 3: relevant = filter_relevant_articles(articles), then
\* new_articles = [a for a in relevant if not article_exists(a['id'])].
MainFilter ==
    /\ pc = "step3"
    /\ \E raises \in BOOLEAN :
        LET rel == SelectSeq(fetched_articles, IsRelevant)
            res == [results EXCEPT !.articles_relevant = Len(rel)]
            k == FirstMissing(rel, {"id"})
            Fresh(a) == ~article_exists(a.id, ledger)
            fresh == SelectSeq(rel, Fresh)
        IN IF raises
           THEN /\ PipelineError(results, "filter_relevant_articles", 0)
                /\ UNCHANGED <<relevant, new_articles>>
           ELSE IF rel = <<>>
           THEN /\ results' = res
                /\ pc' = "returned"
                /\ UNCHANGED <<happened, relevant, new_articles>>
           ELSE IF k # 0
           THEN /\ PipelineError(res, "article_exists", rel[k].id)
                /\ UNCHANGED <<relevant, new_articles>>
           ELSE /\ results' = res
                /\ relevant' = [i \in 1..Len(rel) |-> rel[i].id]
                /\ new_articles' = fresh
                /\ pc' = IF fresh = <<>> THEN "returned" ELSE "step4"
                /\ UNCHANGED happened
    /\ UNCHANGED <<pubVars, limit, test_mode, queues, to_process,
                   generated_articles, genLog, pubLog, histVars, clsVars,
                   saved, workers, wait, pool, fetched_articles, exit_code>>

\* Step 4: classify_article(article, use_groq=True) for every new article.
MainClassifyEvents ==
    /\ pc = "step4"
    /\ \E raises \in BOOLEAN, kinds \in [1..Len(new_articles) -> ClassKinds] :
        IF raises
        THEN /\ PipelineError(results, "classify_article", 0)
             /\ UNCHANGED new_articles
        ELSE /\ new_articles' =
                    [k \in 1..Len(new_articles) |->
                        [id |-> new_articles[k].id, missing |-> new_articles[k].missing,
                         priority |-> kinds[k].priority,
                         high_profile |-> kinds[k].high_profile]]
             /\ pc' = "step5"
             /\ UNCHANGED <<results, happened>>
    /\ UNCHANGED <<pubVars, relevant, limit, test_mode, queues, to_process,
                   generated_articles, genLog, pubLog, histVars, clsVars,
                   saved, workers, wait, pool, fetched_articles, exit_code>>

\* Step 5: queues = get_publishing_queues(new_articles), the three counters
\* and the processing list; an empty list returns.
MainQueues ==
    /\ pc = "step5"
    /\ \E raises \in BOOLEAN :
        LET q == get_publishing_queues(new_articles)
            sel == select_to_process(q, limit)
        IN IF raises
           THEN /\ PipelineError(results, "get_publishing_queues", 0)
                /\ UNCHANGED <<queues, to_process>>
           ELSE /\ queues' = q
                /\ to_process' = sel
                /\ results' = [results EXCEPT !.breaking_count = Len(q.breaking),
                                              !.high_priority_count = Len(q.high),
                                              !.routine_count = Len(q.routine)]
                /\ pc' = IF sel = <<>> THEN "returned" ELSE "step6"
                /\ UNCHANGED happened
    /\ UNCHANGED <<pubVars, relevant, new_articles, limit, test_mode,
                   generated_articles, genLog, pubLog, histVars, clsVars,
                   saved, workers, wait, pool, fetched_articles, exit_code>>

\* Step 6, one iteration: generate_full_article and the image inside the try
\* of the loop. An article without 'link' or 'source' makes
\* generate_full_article raise KeyError (or return None when there is no
\* client); None and an exception each leave a message in the errors.
MainGenerate ==
    /\ pc = "step6"
    /\ Len(genLog) < Len(to_process)
    /\ LET article == to_process[Len(genLog) + 1]
       IN /\ genLog' = Append(genLog, article.id)
          /\ \E out \in GenOutcomes :
                LET kind == IF out.kind = "generated" /\ article.missing \in {"link", "source"}
                            THEN "raised" ELSE out.kind
                IN IF kind = "generated"
                   THEN /\ generated_articles' =
                               Append(generated_articles, [id |-> article.id, slug |-> out.slug])
                        /\ UNCHANGED <<results, happened>>
                   ELSE /\ results' = append_error(results,
                               ItemError(IF kind = "none" THEN "Generation failed" ELSE "Error",
                                         article.id))
                        /\ happened' = [happened EXCEPT !.faults =
                               @ \cup {[stage |-> "generate_full_article", id |-> article.id]}]
                        /\ UNCHANGED generated_articles
    /\ UNCHANGED <<pubVars, relevant, new_articles, limit, test_mode, queues, to_process, pc,
                   pubLog, histVars, clsVars, saved, workers, wait, pool,
                   fetched_articles, exit_code>>

\* What results["published_articles"] gets for the articles of a list.
Summaries_of(list) == [k \in 1..Len(list) |-> list[k].id]

\* After the loop: articles_generated; nothing generated returns; test mode
\* lists every generated article and returns; otherwise publish_articles is
\* entered.
MainAfterGenerate ==
    /\ pc = "step6"
    /\ Len(genLog) = Len(to_process)
    /\ LET res == [results EXCEPT !.articles_generated = Len(generated_articles)]
       IN IF generated_articles = <<>>
          THEN /\ results' = res
               /\ pc' = "returned"
               /\ UNCHANGED pubVars
          ELSE IF test_mode
          THEN /\ results' = [res EXCEPT !.published_articles =
                                   @ \o Summaries_of(generated_articles)]
               /\ pc' = "returned"
               /\ UNCHANGED pubVars
          ELSE /\ results' = res
               /\ pc' = "step7"
               /\ batch' = [active |-> TRUE, done |-> 0, published_count |-> 0]
               /\ call' = [op |-> "publish_articles", id |-> 0]
               /\ UNCHANGED <<ledger, files, ret>>
    /\ UNCHANGED <<relevant, new_articles, limit, test_mode, queues, to_process,
                   generated_articles, genLog, pubLog, histVars, clsVars,
                   saved, workers, wait, pool, fetched_articles, happened, exit_code>>

\* Step 7, one iteration of publish_articles: publish_article(article). An
\* exception of publish_article (before its writes, or after the article file
\* was written) leaves publish_articles and reaches the handler of run_pipeline.
MainPublish ==
    /\ pc = "step7"
    /\ Len(pubLog) < Len(generated_articles)
    /\ LET article == generated_articles[Len(pubLog) + 1]
       IN /\ pubLog' = Append(pubLog, article.id)
          /\ \E raises \in BOOLEAN, io \in IoOutcomes :
                IF raises
                THEN /\ PipelineError(results, "publish_articles", article.id)
                     /\ files' = IF article_exists(article.id, ledger) THEN files
                                  ELSE save_article_html(article, files, io.html)
                     /\ batch' = [active |-> FALSE, done |-> 0, published_count |-> 0]
                     /\ call' = [op |-> "publish_article_raised", id |-> article.id]
                     /\ UNCHANGED <<ledger, ret>>
                ELSE LET r == publish_article(article, ledger, files, io)
                     IN /\ ledger' = r.db
                        /\ files' = r.files
                        /\ ret' = r.ret
                        /\ call' = [op |-> "publish_article", id |-> article.id]
                        /\ batch' = [batch EXCEPT !.done = @ + 1,
                                        !.published_count = IF r.ret THEN @ + 1 ELSE @]
                        /\ happened' = [happened EXCEPT !.published =
                                            IF r.ret THEN Append(@, article.id) ELSE @]
                        /\ UNCHANGED <<results, pc>>
    /\ UNCHANGED <<relevant, new_articles, limit, test_mode, queues, to_process,
                   generated_articles, genLog, histVars, clsVars,
                   saved, workers, wait, pool, fetched_articles, exit_code>>

\* publish_articles returned its count: articles_published, and the loop that
\* fills published_articles from generated_articles.
MainPublished ==
    /\ pc = "step7"
    /\ Len(pubLog) = Len(generated_articles)
    /\ results' = [results EXCEPT !.articles_published = batch.published_count,
                                  !.published_articles =
                                      @ \o Summaries_of(generated_articles)]
    /\ pc' = "returned"
    /\ batch' = [active |-> FALSE, done |-> 0, published_count |-> 0]
    /\ ret' = batch.published_count
    /\ call' = [op |-> "publish_articles_return", id |-> 0]
    /\ UNCHANGED <<ledger, files, relevant, new_articles, limit, test_mode, queues, to_process,
                   generated_articles, genLog, pubLog, histVars, clsVars,
                   saved, workers, wait, pool, fetched_articles, happened, exit_code>>

\* The test of main that ignores --test.
exit_status_ignores_test(res, tm) ==
    IF res.articles_published = 0 /\ res.errors # <<>> THEN 1 ELSE 0

\* if results["articles_published"] == 0 and not args.test:
\*     if results["errors"]: sys.exit(1)
exit_status(res, tm) ==
    IF res.articles_published = 0 /\ ~tm /\ res.errors # <<>> THEN 1 ELSE 0

\* run_pipeline returned to main, and the process exits.
MainExit ==
    /\ pc = "returned"
    /\ exit_code' = exit_status(results, test_mode)
    /\ pc' = "exited"
    /\ UNCHANGED <<pubVars, relevant, new_articles, limit, test_mode, queues, to_process,
                   generated_articles, genLog, pubLog, histVars, clsVars,
                   saved, workers, wait, pool, fetched_articles, results, happened>>

RunInit ==
    /\ relevant = <<>>
    /\ new_articles = <<>>
    /\ limit = NoLimit
    /\ test_mode = FALSE
    /\ queues = EmptyQueues
    /\ to_process = <<>>
    /\ pc = "idle"
    /\ generated_articles = <<>>
    /\ genLog = <<>>
    /\ pubLog = <<>>

HistInit ==
    /\ dbInserts = [i \in Ids |-> 0]

\* A ledger file as the publisher leaves it: absent or empty at first.
PubInit ==
    /\ ledger = <<>>
    /\ files = [s \in Slugs |-> 0]
    /\ call = [op |-> "none", id |-> 0]
    /\ ret = FALSE
    /\ batch = [active |-> FALSE, done |-> 0, published_count |-> 0]

Init == PubInit /\ RunInit /\ HistInit /\ ClsInit /\ SvcInit

Next ==
    \/ PublishArticle
    \/ PublishArticlesBegin
    \/ PublishArticlesStep
    \/ PublishArticlesReturn

Spec == Init /\ [][Next]_vars

NextQ == BuildQueues

\* The queue building starts from the classified candidates of a run; the
\* publisher has not been called.
InitQueues == InitQ /\ PubInit /\ HistInit /\ ClsInit /\ SvcInit

SpecQ == InitQueues /\ [][NextQ]_vars

\* One run, taken up after the event classification, on a site that has
\* published nothing yet.
MaxOrder == 3       \* most candidates the run classified

InitOneRun ==
    /\ new_articles \in {Numbered(kinds) : kinds \in SeqsUpTo(ClassKinds, MaxOrder)}
    /\ relevant = [k \in 1..Len(new_articles) |-> new_articles[k].id]
    /\ limit \in RunLimits
    /\ test_mode \in BOOLEAN
    /\ queues = EmptyQueues
    /\ to_process = <<>>
    /\ pc = "classified"
    /\ generated_articles = <<>>
    /\ genLog = <<>>
    /\ pubLog = <<>>
    /\ dbInserts = [i \in 1..Max(NumIds, MaxOrder) |-> 0]
    /\ PubInit
    /\ ClsInit
    /\ SvcInit

NextOneRun ==
    \/ BuildQueues
    \/ GenerateStep
    \/ AfterGenerate
    \/ RunPublishStep
    \/ RunReturn

SpecOneRun == InitOneRun /\ [][NextOneRun]_vars

\* A run of a new process on a site that has published before: the ledger file
\* holds what earlier runs left in it (at most MAX_LEDGER entries, newest first,
\* one per id) and each article file is the one of the newest entry with its slug.
LedgerFiles ==
    {db \in SeqsUpTo(GeneratedArticles, MAX_LEDGER) :
        \A i, j \in 1..Len(db) : i # j => db[i].id # db[j].id}

FilesOf(db) ==
    [s \in Slugs |->
        IF \E k \in 1..Len(db) : db[k].slug = s
        THEN db[CHOOSE k \in 1..Len(db) :
                    /\ db[k].slug = s
                    /\ \A j \in 1..Len(db) : db[j].slug = s => k <= j].id
        ELSE 0]

InitLaterRun ==
    /\ ledger \in LedgerFiles
    /\ files = FilesOf(ledger)
    /\ call = [op |-> "none", id |-> 0]
    /\ ret = FALSE
    /\ batch = [active |-> FALSE, done |-> 0, published_count |-> 0]
    /\ dbInserts = [i \in Ids |-> IF \E k \in 1..Len(ledger) : ledger[k].id = i THEN 1 ELSE 0]
    /\ RunInit
    /\ ClsInit
    /\ SvcInit

\* The run up to the end of the generation loop.
NextLaterRun ==
    \/ RunStart
    \/ BuildQueues
    \/ GenerateStep

SpecLaterRun == InitLaterRun /\ [][NextLaterRun]_vars

\* Calls of save_article_to_db, one after the other, on a new site.
NextLedger == SaveArticleToDb

SpecLedger == Init /\ [][NextLedger]_vars

\* Two runs on a new site, their publish_article calls step by step.
NextTwoRuns ==
    \E r \in Runs :
        \/ WorkerBegin(r)
        \/ WorkerArticleExists(r)
        \/ WorkerSaveArticleHtml(r)
        \/ WorkerLoadArticlesDb(r)
        \/ WorkerSaveArticlesDb(r)

SpecTwoRuns == Init /\ [][NextTwoRuns]_vars

\* generate_featured_image from its call of wait_for_generation on. The
\* interpreter keeps running the thread: a step that can be taken is taken.
InitWait ==
    /\ wait \in {WaitStart(max_wait) : max_wait \in 0..MAX_WAIT}
    /\ PubInit
    /\ RunInit
    /\ HistInit
    /\ ClsInit
    /\ LedgerCallsInit
    /\ PoolInit
    /\ MainInit

NextWait ==
    \/ WaitWhile
    \/ WaitGet
    \/ WaitSleep
    \/ WaitReturned

SpecWait == InitWait /\ [][NextWait]_vars /\ WF_vars(NextWait)

\* One call of fetch_all_feeds; the threads take their steps in any order.
InitFeeds ==
    /\ pool = PoolStart
    /\ PubInit
    /\ RunInit
    /\ HistInit
    /\ ClsInit
    /\ LedgerCallsInit
    /\ WaitInit
    /\ MainInit

NextFeeds ==
    \/ \E f \in Feeds : FetchStart(f)
    \/ \E f \in Feeds : FetchParse(f)
    \/ \E f \in Feeds : FetchEntry(f)
    \/ \E f \in Feeds : FetchCompleted(f)
    \/ FetchAllReturn

SpecFeeds == InitFeeds /\ [][NextFeeds]_vars

\* One invocation of main (--test and --limit as given) on the ledger file
\* and the article files it finds.
InitMain ==
    /\ ledger \in MainLedgers
    /\ files = FilesOf(ledger)
    /\ call = [op |-> "none", id |-> 0]
    /\ ret = FALSE
    /\ batch = [active |-> FALSE, done |-> 0, published_count |-> 0]
    /\ relevant = <<>>
    /\ new_articles = <<>>
    /\ limit \in RunLimits
    /\ test_mode \in BOOLEAN
    /\ queues = EmptyQueues
    /\ to_process = <<>>
    /\ pc = "step1"
    /\ generated_articles = <<>>
    /\ genLog = <<>>
    /\ pubLog = <<>>
    /\ HistInit
    /\ ClsInit
    /\ LedgerCallsInit
    /\ WaitInit
    /\ PoolInit
    /\ MainInit

NextMain ==
    \/ MainFetch
    \/ MainClassifyTopics
    \/ MainFilter
    \/ MainClassifyEvents
    \/ MainQueues
    \/ MainGenerate
    \/ MainAfterGenerate
    \/ MainPublish
    \/ MainPublished
    \/ MainExit

SpecMain == InitMain /\ [][NextMain]_vars

NextRun ==
    \/ RunStart
    \/ BuildQueues
    \/ GenerateStep
    \/ AfterGenerate
    \/ RunPublishStep
    \/ RunReturn

SpecRun == Init /\ [][NextRun]_vars

\* The classifier on candidates of its own: every candidate text without
\* signals, and the candidates that share keywords with one signal at most.
InitClassify ==
    /\ \/ /\ article_list \in {<<c>> : c \in Candidates}
          /\ trending = NoSignals
       \/ /\ article_list \in {<<c>> : c \in SignalCandidates}
          /\ trending \in SignalSets(1)
    /\ cpc = "input"
    /\ last_call = NoResult
    /\ PubInit
    /\ RunInit
    /\ HistInit
    /\ SvcInit

NextClassify ==
    \/ ClassifyEventFast
    \/ ClassifyEventGroq
    \/ ClassifyArticle
    \/ BoostViralArticles

SpecClassify == InitClassify /\ [][NextClassify]_vars

\* The trending matcher on candidates that share keywords with the signals:
\* one candidate with every set of signals, two with one signal at most.
InitTrending ==
    /\ \/ /\ article_list \in {<<c>> : c \in SignalItems}
          /\ trending \in SignalSets(MaxSignals)
       \/ /\ article_list \in {<<c, d>> : c \in SignalItems, d \in SignalItems}
          /\ trending \in SignalSets(1)
    /\ cpc = "input"
    /\ last_call = NoResult
    /\ PubInit
    /\ RunInit
    /\ HistInit
    /\ SvcInit

NextTrending ==
    \/ BoostViralArticles
    \/ MatchArticleToSignals
    \/ ExtractKeywords

SpecTrending == InitTrending /\ [][NextTrending]_vars

----------------------------------------------------------------------------
(* The claims *)

HasId(list, i) == \E k \in 1..Len(list) : list[k].id = i
Occurrences(list, a) == Cardinality({k \in 1..Len(list) : list[k] = a})
CountTier(list, p) == Cardinality({k \in 1..Len(list) : list[k].priority = p})
PositionIn(list, a) == CHOOSE k \in 1..Len(list) : list[k] = a

\* The classified candidates of this run per tier.
N == CountTier(new_articles, 1)
M == CountTier(new_articles, 2)
K == CountTier(new_articles, 3)

\* C1 (Spec): after any sequence of publish_article / publish_articles calls made
\* one at a time, no two entries of the ledger have the same id.
C1_LedgerIdsUnique ==
    \A i, j \in 1..Len(ledger) : ledger[i].id = ledger[j].id => i = j

\* A publish_article call has just added a second entry to the ledger.
C1_Witness ==
    /\ call.op = "publish_article"
    /\ ret = TRUE
    /\ Len(ledger) = 2
    /\ ledger[1].id = call.id

\* C2 (SpecRun): over pipeline runs made one at a time, every article id is
\* published at most once, so no id gets a second ledger insertion, however many
\* other articles were published in between.
C2_AtMostOncePublished ==
    \A i \in Ids : dbInserts[i] <= 1

\* C3 (Spec): publish_article on an article whose id is in the ledger returns
\* False and leaves the ledger and every article file as they were.
C3_ExistingIdChangesNothing ==
    [][(call'.op = "publish_article" /\ HasId(ledger, call'.id))
        => (ret' = FALSE /\ ledger' = ledger /\ files' = files)]_vars

\* publish_article has just refused an id that the ledger holds.
C3_Witness ==
    /\ call.op = "publish_article"
    /\ ret = FALSE
    /\ HasId(ledger, call.id)
    /\ \E s \in Slugs : files[s] = call.id

\* What the caps 5 and 3 take from the urgent and the elevated bucket.
TakenUrgentElevated == Min(N, 5) + Min(M, 3)

\* What is taken from the routine bucket when both other buckets are empty.
TakenRoutineAlone == IF N = 0 /\ M = 0 THEN Min(K, 1) ELSE 0

\* C4 as stated (SpecQ): with no overall limit the list has
\* min(N,5) + min(M,3) + (min(K,1) if N = 0 and M = 0 else 0) items, plus one
\* further routine item whenever fewer than 2 items came from the urgent and
\* elevated buckets and a routine item not yet taken remains.
C4_LengthAsStated ==
    (pc = "selected" /\ limit = NoLimit) =>
        Len(to_process) = TakenUrgentElevated + TakenRoutineAlone
            + (IF TakenUrgentElevated < 2 /\ K - TakenRoutineAlone > 0 THEN 1 ELSE 0)

\* C4 as amended (SpecQ): with no overall limit the list has
\* min(N,5) + min(M,3) + (min(K,1) if N = 0 and M = 0 else 0) items, plus one
\* routine item whenever exactly one item came from the urgent and elevated
\* buckets together and K >= 1.
C4_Length ==
    (pc = "selected" /\ limit = NoLimit) =>
        Len(to_process) = TakenUrgentElevated + TakenRoutineAlone
            + (IF TakenUrgentElevated = 1 /\ K >= 1 THEN 1 ELSE 0)

\* The filler: one urgent or elevated item, two routine ones, a list of two.
C4_Witness ==
    /\ pc = "selected"
    /\ limit = NoLimit
    /\ N + M = 1
    /\ K = 2
    /\ Len(to_process) = 2
    /\ to_process[2].priority = 3

\* C5 (SpecQ): an urgent item that reached the queue builder is left out of the
\* list sent to content generation only if that list holds no elevated and no
\* routine item.
C5_UrgentNeverDroppedForLower ==
    pc = "selected" =>
        ((\E k \in 1..Len(new_articles) :
              new_articles[k].priority = 1 /\ ~HasId(to_process, new_articles[k].id))
         => \A j \in 1..Len(to_process) : to_process[j].priority = 1)

\* C6 (SpecQ): a routine item is in the list sent to content generation only
\* when fewer than 2 urgent and elevated items are in it.
C6_RoutineOnlyWhenFewUrgent ==
    pc = "selected" =>
        (CountTier(to_process, 3) > 0
            => CountTier(to_process, 1) + CountTier(to_process, 2) < 2)

\* A routine item was added as filler behind the only urgent or elevated item,
\* out of a run that had routine candidates to spare.
C6_Witness ==
    /\ pc = "selected"
    /\ K >= 2
    /\ CountTier(to_process, 3) = 1
    /\ CountTier(to_process, 1) + CountTier(to_process, 2) = 1

\* C7 (SpecQ): with an overall limit L >= 0 the list sent to content generation
\* is the first L items of the queue-ordered selection, so it has at most L items.
C7_LimitTruncates ==
    (pc = "selected" /\ limit # NoLimit) =>
        (limit[1] >= 0 =>
            /\ to_process = Take(WithRoutine(queues), limit[1])
            /\ Len(to_process) <= limit[1])

\* The bucket of the queues an item of tier p belongs to.
BucketOf(p) == IF p = 1 THEN queues.breaking ELSE IF p = 2 THEN queues.high ELSE queues.routine

IdsIn(list) == [k \in 1..Len(list) |-> list[k].id]

IsPrefix(s, t) == Len(s) <= Len(t) /\ s = SubSeq(t, 1, Len(s))

\* C8 (SpecOneRun): in the list sent to content generation the urgent items
\* come first, then the elevated, then the routine ones, each bucket in its
\* bucket order; generation takes the items in that order and publishing takes
\* the generated articles in that order.
C8_QueueOrderKept ==
    /\ \A i, j \in 1..Len(to_process) : i < j =>
          /\ to_process[i].priority <= to_process[j].priority
          /\ to_process[i].priority = to_process[j].priority =>
                PositionIn(BucketOf(to_process[i].priority), to_process[i])
                    < PositionIn(BucketOf(to_process[j].priority), to_process[j])
    /\ IsPrefix(genLog, IdsIn(to_process))
    /\ \A i, j \in 1..Len(generated_articles) : i < j =>
          \E k, l \in 1..Len(genLog) :
              k < l /\ genLog[k] = generated_articles[i].id
                    /\ genLog[l] = generated_articles[j].id
    /\ IsPrefix(pubLog, IdsIn(generated_articles))

\* Three candidates classified elevated, urgent, urgent and high-profile were
\* generated and published in the reverse order.
C8_Witness ==
    /\ pc = "publish"
    /\ Len(new_articles) = 3
    /\ new_articles[1].priority = 2
    /\ new_articles[2].priority = 1 /\ ~new_articles[2].high_profile
    /\ new_articles[3].priority = 1 /\ new_articles[3].high_profile
    /\ IdsIn(to_process) = <<3, 2, 1>>
    /\ genLog = <<3, 2, 1>>
    /\ pubLog = <<3, 2, 1>>

\* C9 (SpecQ): get_publishing_queues partitions its input: each classified item
\* is in the bucket of its tier, once, and in no other bucket.
C9_QueuesPartition ==
    pc = "selected" =>
        /\ Len(queues.breaking) + Len(queues.high) + Len(queues.routine)
               = Len(new_articles)
        /\ \A k \in 1..Len(new_articles) :
              LET a == new_articles[k]
              IN /\ Occurrences(queues.breaking, a) = (IF a.priority = 1 THEN 1 ELSE 0)
                 /\ Occurrences(queues.high, a) = (IF a.priority = 2 THEN 1 ELSE 0)
                 /\ Occurrences(queues.routine, a) = (IF a.priority = 3 THEN 1 ELSE 0)

\* A list with candidates of all three tiers was partitioned.
C9_Witness ==
    /\ pc = "selected"
    /\ Len(queues.breaking) >= 2
    /\ Len(queues.high) >= 1
    /\ Len(queues.routine) >= 1

HighProfileFirstStable(q) ==
    \A i, j \in 1..Len(q) : i < j =>
        /\ q[i].high_profile \/ ~q[j].high_profile
        /\ q[i].high_profile = q[j].high_profile =>
              PositionIn(new_articles, q[i]) < PositionIn(new_articles, q[j])

\* C10 (SpecQ): in each bucket every high-profile item precedes every other
\* item, and items with the same flag keep their order of the input list.
C10_HighProfileFirstStable ==
    pc = "selected" =>
        /\ HighProfileFirstStable(queues.breaking)
        /\ HighProfileFirstStable(queues.high)
        /\ HighProfileFirstStable(queues.routine)

\* The sort moved a high-profile item in front of two others that came before it.
C10_Witness ==
    /\ pc = "selected"
    /\ Len(queues.breaking) >= 4
    /\ queues.breaking[1].high_profile
    /\ queues.breaking[2].high_profile
    /\ ~queues.breaking[3].high_profile
    /\ ~queues.breaking[4].high_profile
    /\ PositionIn(new_articles, queues.breaking[1])
           > PositionIn(new_articles, queues.breaking[4])

\* The ids of relevant that the ledger holds.
LedgeredRelevant == {relevant[k] : k \in {j \in 1..Len(relevant) : HasId(ledger, relevant[j])}}

\* C11 (SpecLaterRun): in a run, a relevant candidate whose id the ledger holds is
\* removed before the event classification: it is not among the classified
\* candidates, in no queue, not in the list sent to content generation, and
\* generate_full_article is not called on it.
C11_LedgeredNeverClassified ==
    pc \in {"classified", "selected"} =>
        \A i \in LedgeredRelevant :
            /\ ~HasId(new_articles, i)
            /\ ~HasId(queues.breaking, i) /\ ~HasId(queues.high, i) /\ ~HasId(queues.routine, i)
            /\ ~HasId(to_process, i)
            /\ \A k \in 1..Len(genLog) : genLog[k] # i

\* A run fetched an id that the ledger holds together with a new one, and the
\* new one went through the queues to content generation.
C11_Witness ==
    /\ pc = "selected"
    /\ LedgeredRelevant # {}
    /\ Len(relevant) = 2
    /\ HasId(ledger, relevant[1])
    /\ genLog = <<relevant[2]>>

\* The seven event types and the tier the table gives each.
SevenTypes == {"BREAKING", "ACQUISITION", "LAYOFFS", "LAWSUIT", "FUNDING", "VIRAL", "ROUTINE"}
TierOf(t) == IF t \in {"BREAKING", "ACQUISITION", "LAYOFFS", "LAWSUIT"} THEN 1
             ELSE IF t \in {"FUNDING", "VIRAL"} THEN 2 ELSE 3
TypeAndTierFromTable(c) == c.event_type \in SevenTypes /\ c.priority = TierOf(c.event_type)

HasClassification(a) == "event_classification" \in DOMAIN a

\* The lower-cased title and summary of the candidate the last call was about.
CalledText == lower(article_list[1].title \o " " \o article_list[1].summary)

\* C12 (SpecClassify): every event_classification that classify_event_fast or
\* classify_event_groq returned, that classify_article attached (boost marker or
\* not) or that boost_viral_articles left on an article has one of the seven
\* event types and the tier of the table for that type.
C12_TypeAndTierFromTable ==
    /\ \A k \in 1..Len(article_list) :
          HasClassification(article_list[k])
              => TypeAndTierFromTable(article_list[k].event_classification)
    /\ (last_call.op \in {"classify_event_fast", "classify_event_groq"} /\ ~last_call.raised)
          => TypeAndTierFromTable(last_call.value[1])

\* boost_viral_articles has upgraded a candidate that classify_article had found
\* routine.
C12_Witness ==
    /\ cpc = "boosted"
    /\ HasClassification(article_list[1])
    /\ article_list[1].event_classification.event_type = "VIRAL"
    /\ article_list[1].event_classification.priority = 2
    /\ "viral_boost" \in DOMAIN article_list[1].event_classification

\* The order of the event types in classify_event_fast.
FixedOrder == <<"BREAKING", "ACQUISITION", "LAYOFFS", "LAWSUIT", "FUNDING", "VIRAL">>
TriggersOf(t) == EVENT_SIGNALS[CHOOSE k \in 1..Len(EVENT_SIGNALS) :
                                   EVENT_SIGNALS[k].event_type = t].keywords
HasTrigger(t, text) == \E i \in 1..Len(TriggersOf(t)) : Contains(text, TriggersOf(t)[i])
TriggerCount(t, text) ==
    Cardinality({i \in 1..Len(TriggersOf(t)) : Contains(text, TriggersOf(t)[i])})

\* C13 (SpecClassify): classify_event_fast returns the first type of BREAKING,
\* ACQUISITION, LAYOFFS, LAWSUIT, FUNDING, VIRAL that has a trigger phrase in the
\* lower-cased "title summary", however many phrases of later types are in it,
\* and ROUTINE exactly when no trigger phrase of any type is in it.
C13_FirstTypeInOrderWins ==
    last_call.op = "classify_event_fast" =>
        /\ \A k \in 1..Len(FixedOrder) :
              (HasTrigger(FixedOrder[k], CalledText)
               /\ \A j \in 1..(k - 1) : ~HasTrigger(FixedOrder[j], CalledText))
                  => last_call.value[1].event_type = FixedOrder[k]
        /\ last_call.value[1].event_type = "ROUTINE"
              <=> \A k \in 1..Len(FixedOrder) : ~HasTrigger(FixedOrder[k], CalledText)

\* One phrase of BREAKING and two of FUNDING are in the text: BREAKING.
C13_Witness ==
    /\ last_call.op = "classify_event_fast"
    /\ TriggerCount("BREAKING", CalledText) = 1
    /\ TriggerCount("FUNDING", CalledText) = 2
    /\ last_call.value[1].event_type = "BREAKING"

\* The reply as the validation reads it.
ReplyRead == upper(strip(last_call.external.content))
GroqReplied == last_call.op = "classify_event_groq" /\ last_call.external.kind = "reply"
LabelsInReply == {k \in 1..Len(EVENT_TYPES) : Contains(ReplyRead, EVENT_TYPES[k])}
FastOfCalled == classify_event_fast(article_list[1].title, article_list[1].summary)

\* C14 as stated (SpecClassify): when the reply, trimmed and upper-cased, is not
\* exactly one of the seven labels, classify_event_groq returns the event type
\* and the tier of classify_event_fast for the same title and summary.
C14_FallbackUnlessExactLabel ==
    (GroqReplied /\ ReplyRead \notin SevenTypes) =>
        /\ last_call.value[1].event_type = FastOfCalled.event_type
        /\ last_call.value[1].priority = FastOfCalled.priority

\* C14 as amended (SpecClassify): when the reply, trimmed and upper-cased, is
\* not one of the seven labels and holds none of them, classify_event_groq
\* returns the event type and the tier of classify_event_fast for the same title
\* and summary; when it holds a label without being one, it returns the first
\* label in the order of the table that the reply holds, with that label's tier.
C14_FallbackWhenNoLabelInReply ==
    (GroqReplied /\ ReplyRead \notin SevenTypes) =>
        IF LabelsInReply = {}
        THEN /\ last_call.value[1].event_type = FastOfCalled.event_type
             /\ last_call.value[1].priority = FastOfCalled.priority
        ELSE /\ last_call.value[1].event_type
                    = EVENT_TYPES[CHOOSE k \in LabelsInReply : \A j \in LabelsInReply : k <= j]
             /\ last_call.value[1].priority = TierOf(last_call.value[1].event_type)

\* A reply without a label on a text with a trigger phrase: the keyword result.
C14_Witness ==
    /\ GroqReplied
    /\ last_call.external.content = "unsure"
    /\ FastOfCalled.event_type = "FUNDING"
    /\ last_call.value[1].event_type = "FUNDING"
    /\ last_call.value[1].priority = 2

ExternalCallFailed(external) ==
    external.use_groq /\ external.client /\ external.kind # "reply"

\* C15 (SpecClassify): when the external call fails (exception, timeout, a
\* response that cannot be read), classify_event_groq and classify_article raise
\* nothing, and the classification is the result of classify_event_fast for the
\* same title and summary: same event type, tier, confidence and high-profile flag.
C15_FailureFallsBackSilently ==
    /\ (last_call.op = "classify_event_groq" /\ ExternalCallFailed(last_call.external)) =>
          /\ ~last_call.raised
          /\ last_call.value = <<FastOfCalled>>
    /\ (last_call.op = "classify_article" /\ ExternalCallFailed(last_call.external)) =>
          /\ ~last_call.raised
          /\ HasClassification(article_list[last_call.arg])
          /\ LET ec == article_list[last_call.arg].event_classification
                 fast == classify_event_fast(article_list[last_call.arg].title,
                                             article_list[last_call.arg].summary)
             IN /\ ec.event_type = fast.event_type
                /\ ec.priority = fast.priority
                /\ ec.confidence = fast.confidence
                /\ ec.high_profile = fast.high_profile

\* classify_article met a response it could not read and attached the keyword
\* result of a high-profile launch.
C15_Witness ==
    /\ last_call.op = "classify_article"
    /\ last_call.external.kind = "unreadable"
    /\ ~last_call.raised
    /\ article_list[1].event_classification.confidence = "keyword_match"
    /\ article_list[1].event_classification.event_type = "BREAKING"
    /\ article_list[1].event_classification.high_profile

BoostStep == last_call.op # "boost_viral_articles" /\ last_call'.op = "boost_viral_articles"

\* C16 (SpecTrending): boost_viral_articles leaves the event_classification of
\* every item whose event type is not ROUTINE as it was (type, tier, flags),
\* also when the item matches a trending signal.
C16_NonRoutineUntouched ==
    [][BoostStep =>
        \A k \in 1..Len(article_list) :
            (HasClassification(article_list[k])
             /\ article_list[k].event_classification.event_type # "ROUTINE")
                => /\ HasClassification(article_list'[k])
                   /\ article_list'[k].event_classification
                          = article_list[k].event_classification]_vars

\* A FUNDING item matched a trending signal and is still FUNDING in tier 2.
C16_Witness ==
    /\ cpc = "boosted"
    /\ "viral_match" \in DOMAIN article_list[1]
    /\ HasClassification(article_list[1])
    /\ article_list[1].event_classification.event_type = "FUNDING"
    /\ article_list[1].event_classification.priority = 2
    /\ "viral_boost" \notin DOMAIN article_list[1].event_classification

\* The signal of the trending lists that a recorded match names.
IsRecordOf(m, a) ==
    \E k \in 1..Len(trending[m.signal_source]) :
        LET sig == trending[m.signal_source][k]
        IN /\ m.signal_title = SubSeq(sig.title, 1, Min(Len(sig.title), 100))
           /\ m.matched_keywords
                  = sig.keywords \cap extract_keywords(lower(a.title \o " " \o a.summary))

AllSignals == trending.reddit \o trending.hackernews \o trending.github
Shared(sig) == sig.keywords \cap extract_keywords(CalledText)
Sharing(n) == {k \in 1..Len(AllSignals) : Cardinality(Shared(AllSignals[k])) >= n}
Product(k) == Cardinality(Shared(AllSignals[k])) * AllSignals[k].score
MatchReturned == last_call.op = "match_article_to_signals"

\* C18 (SpecTrending): match_article_to_signals returns a match if and only if
\* a signal of the reddit, hackernews or github list shares at least min_matches
\* keywords with the item, whatever the scores of the signals; None otherwise.
C18_MatchIffSharedKeywords ==
    MatchReturned => (last_call.value # <<>> <=> Sharing(last_call.arg) # {})

\* C19 (SpecTrending): when signals share at least min_matches keywords with the
\* item, match_article_to_signals returns the one with the largest product of
\* shared keywords and score, the first of them in the order reddit,
\* hackernews, github (each in list order) when products are equal.
C19_LargestProductFirstOnTie ==
    (MatchReturned /\ Sharing(last_call.arg) # {}) =>
        /\ last_call.value # <<>>
        /\ LET best == CHOOSE k \in Sharing(last_call.arg) :
                          /\ \A j \in Sharing(last_call.arg) : Product(j) <= Product(k)
                          /\ \A j \in Sharing(last_call.arg) : j < k => Product(j) < Product(k)
               first == Len(trending.reddit)
               second == Len(trending.reddit) + Len(trending.hackernews)
           IN /\ last_call.value[1].combined_score = Product(best)
              /\ last_call.value[1].signal_source
                    = (IF best <= first THEN "reddit"
                       ELSE IF best <= second THEN "hackernews" ELSE "github")
              /\ last_call.value[1].signal_title
                    = SubSeq(AllSignals[best].title, 1, Min(Len(AllSignals[best].title), 100))

\* C20 (SpecTrending): extract_keywords returns the lower-cased alphabetic
\* tokens of at least 3 letters that are not stop words, together with every
\* token that is in the allow-list.
C20_KeywordsAsStated ==
    last_call.op = "extract_keywords" =>
        last_call.value[1]
            = {w \in Words(CalledText) : Len(w) >= 3 /\ w \notin stop_words}
              \cup {w \in Words(CalledText) : w \in tech_terms}

----------------------------------------------------------------------------
(* The claims on the result of a run, the ledger file and the services *)

\* run_pipeline is over: it returned its results, and main may have exited.
RunOver == pc \in {"returned", "exited"}

\* The failure is written in the error list: the step that raised for an
\* exception caught around the steps, a message on the article for one caught
\* in the generation loop.
Recorded(f) ==
    \E k \in 1..Len(results.errors) :
        /\ results.errors[k].id = f.id
        /\ \/ results.errors[k].level = "run" /\ results.errors[k].stage = f.stage
           \/ results.errors[k].level = "item" /\ f.stage = "generate_full_article"

Defective == {k \in 1..Len(fetched_articles) : fetched_articles[k].missing # "none"}

\* No step raised for a reason other than the defective article.
OnlyTheItemFailed(d) ==
    \A f \in happened.faults : f.id = fetched_articles[d].id

\* generate_full_article was called for the article.
TakenUp(i) == \E j \in 1..Len(genLog) : genLog[j] = i

ItemErrorsOn(i) ==
    Cardinality({k \in 1..Len(results.errors) :
                    results.errors[k].level = "item" /\ results.errors[k].id = i})

C25_WaitTerminates ==
    <>(wait.pc = "done")

\* How often an article stands in a list.
C26_Count(list, a) ==
    Cardinality({i \in 1..Len(list) : list[i] = a})

\* The lengths of the lists the calls of fetch_single_feed returned, added up.
RECURSIVE C26_Returned(_)
C26_Returned(fs) ==
    IF fs = {} THEN 0
    ELSE LET f == CHOOSE x \in fs : TRUE
         IN Len(pool.future[f].articles) + C26_Returned(fs \ {f})

C27_TrueMeansLedgered ==
    (call.op = "publish_article" /\ ret = TRUE) => HasId(ledger, call.id)

\* Both runs are outside publish_article and at least one ledger write was made.
RunsAtRest == \A r \in Runs : workers.proc[r].pc = "idle"

OneEntryPerId == \A i, j \in 1..Len(ledger) : ledger[i].id = ledger[j].id => i = j
\* Every entry written is in the ledger, but for those the cap has discarded.
NoWriteLost == ledger = SubSeq(saved, 1, Min(Len(saved), MAX_LEDGER))

\* C28 as stated (SpecTwoRuns): when two runs interleave the steps of their
\* publish_article calls (membership check, file write, ledger load, insert and
\* save), the ledger still ends with at most one entry per id and no ledger
\* entry written by either run is lost.
C28_InterleavedRunsKeepLedger ==
    RunsAtRest => (OneEntryPerId /\ NoWriteLost)

\* C28 as amended (SpecTwoRuns): when the publish_article calls of two runs do
\* not overlap (no step of one run between the membership check and the ledger
\* save of the other), the ledger has at most one entry per id and holds every
\* entry written, newest first, up to the cap.
C28_SerialRunsKeepLedger ==
    (RunsAtRest /\ ~workers.overlapped) => (OneEntryPerId /\ NoWriteLost)

\* The second run asked for the id the first had published and was refused.
C28_Witness ==
    /\ RunsAtRest
    /\ ~workers.overlapped
    /\ \A r \in Runs : workers.proc[r].calls = 1
    /\ call.op = "publish_article"
    /\ ret = FALSE
    /\ Len(saved) = 1
    /\ saved[1].id = call.id
    /\ Len(ledger) = 1

\* C29 (SpecMain): after a run that is not a dry run, published_articles lists
\* exactly the articles publish_articles published, so it is as long as
\* articles_published says, and articles_published <= articles_generated <=
\* the number of articles selected.
C29_PublishedListIsWhatWasPublished ==
    (RunOver /\ ~test_mode) =>
        /\ results.published_articles = happened.published
        /\ Len(results.published_articles) = results.articles_published
        /\ results.articles_published <= results.articles_generated
        /\ results.articles_generated <= Len(to_process)

\* C30 (Spec): a successful publish_article writes a new file and never the file
\* of an article published under another id: every ledger entry's file holds
\* the HTML of that entry's article, and distinct entries have distinct slugs.
C30_EntriesKeepTheirFile ==
    /\ \A k \in 1..Len(ledger) : files[ledger[k].slug] = ledger[k].id
    /\ \A i, j \in 1..Len(ledger) : i # j => ledger[i].slug # ledger[j].slug

====
